---------------------------- MODULE Spec2Model ----------------------------
(***************************************************************************)
(* The virtual folder service (virtualFolderSyncthingService): a job queue *)
(* of files to prefetch, four background download workers draining it,     *)
(* the block cache they fill through GetBlockDataFromCacheOrDownload, the  *)
(* scanner and control plane that enqueue names, a FUSE reader that pulls  *)
(* blocks on demand, and the Serve lifecycle that starts the workers.      *)
(***************************************************************************)
EXTENDS Integers, Sequences, FiniteSets, Bags, TLC

(***************************************************************************)
(* Bounds of the model.                                                    *)
(***************************************************************************)
\* How many requests RequestBackgroundDownload may accept in one behaviour.
MaxAccepted == 2

\* The same, where only the queue's order is looked at.
MaxQueued == 3

\* The longest response buffer passed to GetHashBlockData.
MaxBuf == 3
\* Scan is called while fewer than this many snapshots are open.
MaxSnapshots == 2

\* The largest offset and the largest length a FUSE read is made with.
MaxOff == 4
MaxLen == 4

(***************************************************************************)
(* Program constants.                                                      *)
(***************************************************************************)
\* Serve: backgroundDownloadTasks := 4
backgroundDownloadTasks == 4

\* A wakeup channel with room for two tokens.
ChanCap_two == 1 + 1

\* newVirtualFolder: backgroundDownloadPending: make(chan struct{}, 1)
ChanCap == 1

(***************************************************************************)
(* The environment: the folder's global index, as the index database would *)
(* hand it out.  "a" is a file of two blocks, "b" a file of one block that *)
(* shares its hash with the second block of "a", "d" a directory, and "x"  *)
(* a name the control plane may ask for that the global index lacks.       *)
(***************************************************************************)
NoName == "-"
Names == {"a", "b", "d", "x"}

\* Block hashes are byte strings.
HashA == <<10>>
HashB == <<171>>
Hashes == {HashA, HashB}

GlobalIndex ==
    [ a |-> [name |-> "a", isDir |-> FALSE, size |-> 4, modTime |-> 1,
             blocks |-> <<HashA, HashB>>],
      b |-> [name |-> "b", isDir |-> FALSE, size |-> 2, modTime |-> 2,
             blocks |-> <<HashB>>],
      d |-> [name |-> "d", isDir |-> TRUE, size |-> 0, modTime |-> 3,
             blocks |-> <<>>] ]

GlobalNames == DOMAIN GlobalIndex

\* The names the control plane asks for: files, present or not in the index.
RequestableNames == {n \in Names : n \in GlobalNames => ~GlobalIndex[n].isDir}

\* Size and modification time a caller passes with a name.
JobSize(n) == IF n \in GlobalNames THEN GlobalIndex[n].size ELSE 0
JobModTime(n) == IF n \in GlobalNames THEN GlobalIndex[n].modTime ELSE 0

\* The bytes of the block with hash h (pullBlockBase verifies them): two
\* bytes a block, no byte shared by two blocks.
BlockData(h) == << h[1], h[1] + 1 >>

\* The folder's pull order policies.
Orders == {"alphabetic", "oldestFirst", "newestFirst", "smallestFirst", "largestFirst"}

VARIABLES
    (* virtualFolderSyncthingService *)
    order,          \* f.Order, the folder's configured order policy
    blockMap,       \* blockCache: hex key -> data
    pendingChan,    \* number of tokens buffered in backgroundDownloadPending
    queued,         \* backgroundDownloadQueue: the pending entries, in order
    progress,       \* backgroundDownloadQueue: the names in progress
    ctxDone,        \* f.ctx is cancelled
    serve,          \* where Serve is: "new", "running", "returned", or how its
                    \* startup failed: "failedDescriptor", "failedMount"
    mounted,        \* f.mountService is set and not closed
    (* the index database *)
    localHave,      \* the names the local device index holds
    localSeq,       \* the highest sequence number of the local device index
    unannounced,    \* names adopted by an updateOne that no event has named since
    (* the background download workers *)
    workers,        \* the bag of the running workers' local states: the
                    \* goroutines of Serve_backgroundDownloadTask are anonymous
    (* the scanner / control-plane thread *)
    cpc,            \* position: "idle", "scan", "pushed", "send"
    cop,            \* the operation running: "none", "scan", "request"
    cname,          \* the name being requested
    wasNew,         \* PushIfNew's answer: "new", or why not ("pending",
                    \* "inprogress"); "none" outside RequestBackgroundDownload
    ctodo,          \* the needed entries Scan has yet to visit
    accepted,       \* number of requests PushIfNew has accepted
    (* a FUSE reader thread *)
    rpc,            \* position: "idle", "pull"
    rhash,          \* the hash of the block being read
    (* what a caller of the service's and the cache's methods observes *)
    front,          \* the pending name BringToFront moved last, until the next Pop
    calls,          \* per calling thread, the call it runs and what the call returned
    shadow,         \* per hash, the data the last Set gave it, until a Delete
    cacheRet,       \* what the last Get on the block cache returned
    observed,       \* whether this run records the two observations below
    snapsOpen,      \* number of index snapshots acquired and not yet released
    scanRet,        \* what the last Scan returned: "none", "running", "nil", "err"
    (* the FUSE adapter's inode table *)
    ino_mu,         \* the thread holding the table's mutex, or NoName
    ino_mapping,    \* path -> inode number
    next_ino_nr,    \* the next inode number to hand out
    (* lib/model: deviceDownloadState, shared by the threads of a connection *)
    dlFolders,      \* t.folders: folder -> the deviceFolderDownloadState it points to
    dlFiles,        \* per deviceFolderDownloadState, p.files: name -> version, blockIndexes
    dlReaders,      \* number of read locks held on t.mut
    dlCalls,        \* per thread, the call it runs and what the call returned
    (* lib/fs: watchLoop and its channels *)
    backendChan,    \* the events buffered between the backend and watchLoop
    wpc,            \* watchLoop's position
    wev,            \* the backend event watchLoop has in hand
    wctxDone,       \* whether the watch's context is cancelled
    outLast,        \* the last event received from outChan
    wsent,          \* number of events sent on outChan in this iteration of the loop
    wdropped,       \* number of backend events discarded in this iteration of the loop,
                    \* counted up to backendBuffer
    (* lib/relay/client: relayAddressesOrder *)
    relayInput,     \* the addresses given
    relayLatency,   \* per address, what GetLatencyForURL answers
    relayOutput,    \* the addresses returned
    (* lib/upgrade: upgradeToURL and the files it works on *)
    fsys,           \* path -> content of the file there
    upc,            \* upgradeToURL's position
    ufailed,        \* the file operations of this call that have failed
    uret,           \* what upgradeToURL returned
    ucall,          \* the number of calls so far, and for the last one the binary
                    \* found at the binary path and the release of the archive
    (* usageReportingService *)
    urStopClosed,     \* whether the channel s.stop points to is closed
    urForceRunClosed, \* whether s.forceRun is closed
    urServe,          \* Serve's position
    urTimer,          \* what the timer t was last set to: "initial", "now", "tomorrow"
    urCommit,         \* CommitConfiguration's position
    urStop,           \* Stop's position
    urReports         \* usage reports sent since Stop returned

vars == << order, blockMap, pendingChan, queued, progress, ctxDone, serve, mounted,
           localHave, localSeq, unannounced, workers,
           cpc, cop, cname, wasNew, ctodo, accepted, rpc, rhash,
           front, calls, shadow, cacheRet, observed, snapsOpen, scanRet,
           ino_mu, ino_mapping, next_ino_nr,
           dlFolders, dlFiles, dlReaders, dlCalls,
           backendChan, wpc, wev, wctxDone, outLast, wsent, wdropped,
           relayInput, relayLatency, relayOutput,
           fsys, upc, ufailed, uret, ucall,
           urStopClosed, urForceRunClosed, urServe, urTimer, urCommit, urStop, urReports >>

folderVars == << order, blockMap, pendingChan, queued, progress, ctxDone, serve, mounted >>
indexVars == << localHave, localSeq, unannounced >>
workerVars == << workers >>
callerVars == << cpc, cop, cname, wasNew, ctodo, accepted >>
readerVars == << rpc, rhash >>
inoVars == << ino_mu, ino_mapping, next_ino_nr >>
scanObs == << observed, snapsOpen, scanRet >>
apiVars == << calls, shadow, cacheRet, inoVars >>
obsVars == << front, apiVars, scanObs >>
coreVars == << folderVars, indexVars, workerVars, callerVars, readerVars, obsVars >>
dlVars == << dlFolders, dlFiles, dlReaders, dlCalls >>
watchVars == << backendChan, wpc, wev, wctxDone, outLast, wsent, wdropped >>
relayVars == << relayInput, relayLatency, relayOutput >>
upgradeVars == << fsys, upc, ufailed, uret, ucall >>
urVars == << urStopClosed, urForceRunClosed, urServe, urTimer, urCommit, urStop, urReports >>
libVars == << dlVars, watchVars, relayVars, upgradeVars, urVars >>

(***************************************************************************)
(* The block cache (HashedBlockMapInMemory).                               *)
(***************************************************************************)
HexDigits == << "0", "1", "2", "3", "4", "5", "6", "7",
                "8", "9", "a", "b", "c", "d", "e", "f" >>

\* A hex encoding that drops a byte's leading zero digit.
RECURSIVE hashToStringMapKey_noPad(_)
hashToStringMapKey_noPad(hash) ==
    IF hash = <<>> THEN <<>>
    ELSE (IF Head(hash) \div 16 = 0 THEN <<>> ELSE << HexDigits[(Head(hash) \div 16) + 1] >>)
         \o << HexDigits[(Head(hash) % 16) + 1] >>
         \o hashToStringMapKey_noPad(Tail(hash))

\* hex.EncodeToString: two lowercase digits per byte, high nibble first.
RECURSIVE hashToStringMapKey(_)
hashToStringMapKey(hash) ==
    IF hash = <<>> THEN <<>>
    ELSE << HexDigits[(Head(hash) \div 16) + 1], HexDigits[(Head(hash) % 16) + 1] >>
         \o hashToStringMapKey(Tail(hash))

\* Get: (data, ok)
CacheHas(m, hash) == hashToStringMapKey(hash) \in DOMAIN m
CacheGet(m, hash) == m[hashToStringMapKey(hash)]

\* A Set that keeps only the entry it wrote.
CacheSet_evict(m, hash, data) == hashToStringMapKey(hash) :> data

\* Set
CacheSet(m, hash, data) ==
    [k \in DOMAIN m \cup {hashToStringMapKey(hash)} |->
        IF k = hashToStringMapKey(hash) THEN data ELSE m[k]]

\* Delete
CacheDelete(m, hash) ==
    [k \in DOMAIN m \ {hashToStringMapKey(hash)} |-> m[k]]

(***************************************************************************)
(* The job queue (jobQueue).                                               *)
(***************************************************************************)
SeqToSet(s) == {s[i] : i \in DOMAIN s}
QueuedNames(q) == {q[i].name : i \in DOMAIN q}

\* PushIfNew: whether the name is new, i.e. neither pending nor in progress.
IsNew(q, p, name) == name \notin QueuedNames(q) /\ name \notin SeqToSet(p)

\* The entry PushIfNew appends.
Entry(name, size, modified) == [name |-> name, size |-> size, modified |-> modified]

\* The names in lexical order, and a name's place in it.
NamesInOrder == << "a", "b", "d", "x" >>
NameRank(n) == CHOOSE i \in DOMAIN NamesInOrder : NamesInOrder[i] = n

\* Whether entry x sorts strictly before entry y under the order policy o.
Before(o, x, y) ==
    CASE o = "alphabetic"    -> NameRank(x.name) < NameRank(y.name)
      [] o = "oldestFirst"   -> x.modified < y.modified
      [] o = "newestFirst"   -> x.modified > y.modified
      [] o = "smallestFirst" -> x.size < y.size
      [] o = "largestFirst"  -> x.size > y.size

\* Stable insertion of entry e into the sorted sequence s.
RECURSIVE InsertSorted(_, _, _)
InsertSorted(o, s, e) ==
    IF s = <<>> THEN <<e>>
    ELSE IF Before(o, e, Head(s)) THEN <<e>> \o s
    ELSE <<Head(s)>> \o InsertSorted(o, Tail(s), e)

\* SortAccordingToConfig: a stable sort of the pending entries.
RECURSIVE SortAccordingToConfig(_, _)
SortAccordingToConfig(o, q) ==
    IF q = <<>> THEN <<>>
    ELSE InsertSorted(o, SortAccordingToConfig(o, SubSeq(q, 1, Len(q) - 1)), q[Len(q)])

\* Done: the first occurrence of the name leaves the in-progress list.
RECURSIVE RemoveFirst(_, _)
RemoveFirst(p, name) ==
    IF p = <<>> THEN <<>>
    ELSE IF Head(p) = name THEN Tail(p)
    ELSE <<Head(p)>> \o RemoveFirst(Tail(p), name)

(***************************************************************************)
(* The index database (db.FileSet), as the folder service uses it.         *)
(***************************************************************************)
NoEvent == [op |-> "none"]

\* WithNeedTruncated(LocalDeviceID): the global entries the local index lacks,
\* in name order.
RECURSIVE NeededFrom(_, _)
NeededFrom(have, names) ==
    IF names = <<>> THEN <<>>
    ELSE (IF Head(names) \in GlobalNames /\ Head(names) \notin have
          THEN <<Head(names)>> ELSE <<>>) \o NeededFrom(have, Tail(names))

Needed(have) == NeededFrom(have, NamesInOrder)

NeededFiles(have) == {n \in SeqToSet(Needed(have)) : ~GlobalIndex[n].isDir}

\* UpdateOne(LocalDeviceID, fi): the entry enters the local index under the
\* next sequence number.
UpdateOne(name) ==
    /\ localHave' = localHave \cup {name}
    /\ localSeq' = localSeq + 1
    /\ unannounced' = unannounced \cup {name}

\* The LocalIndexUpdated event of Serve_backgroundDownloadTask.
EventRec(name, s) ==
    [op |-> "LocalIndexUpdated", items |-> 1, filenames |-> <<name>>,
     sequence |-> s, version |-> s]

(***************************************************************************)
(* The threads that call the service's block methods, and what they see.   *)
(***************************************************************************)
\* Two threads may call GetBlockDataFromCacheOrDownload and GetHashBlockData.
Callers == {"c1", "c2"}

\* A method's return value before any call has returned.
NoReturn == << "none" >>

\* No data: what a Delete leaves behind, and the nil of a failed call.
NoData == << >>

\* What Get returns for a key the map lacks: (nil, false).
Missing == << NoData, FALSE >>

\* The data the cache is exercised with; the empty slice is one of them.
CacheData == { << "d1" >>, << "d2" >>, << >> }

\* No argument beside the hash: the calls on the FUSE adapter take a path,
\* or a file with an offset and a length.
NoArg == << >>

\* A calling thread outside any call: the call it made last (op, hash,
\* buflen), whether the cache had the hash (hit), how many pullBlockBase
\* calls it issued (pulls) and what it returned (ret).
IdleCall == [op |-> "none", pc |-> "idle", hash |-> << >>, arg |-> NoArg, idx |-> 0, buf |-> NoData, buflen |-> 0,
             hit |-> FALSE, pulls |-> 0, ret |-> NoReturn]

\* The hashes the cache is exercised with: one and two bytes long, with
\* bytes that share a high or a low hex digit.
CacheHashes == Hashes \cup {<<1, 0>>, <<16>>, <<1>>}

\* The threads that call into one deviceDownloadState.
DlThreads == {"t1", "t2"}

\* A thread outside any call on the deviceDownloadState.
DlIdle == [op |-> "none", pc |-> "idle", folder |-> NoName, updates |-> << >>,
           f |-> NoName, ok |-> FALSE, ret |-> << "none" >>]

\* newDeviceDownloadState: no folder registered, the mutex free.
InitDownloadState ==
    /\ dlFolders = << >>
    /\ dlFiles = << >>
    /\ dlReaders = 0
    /\ dlCalls = [t \in DlThreads |-> DlIdle]

\* No event.
NoEv == [path |-> NoName, rm |-> FALSE]

\* Watch has made the two channels and started watchLoop.
InitWatch ==
    /\ backendChan = << >>
    /\ wpc = "top"
    /\ wev = NoEv
    /\ wctxDone = FALSE
    /\ outLast = NoEv
    /\ wsent = 0
    /\ wdropped = 0

\* The binary directory before an upgrade: the running binary, and no
\* call of upgradeToURL yet.
InitUpgrade ==
    /\ fsys = [p \in {<< "binary", 0 >>} |-> "previous"]
    /\ upc = "idle"
    /\ ufailed = {}
    /\ uret = "none"
    /\ ucall = [n |-> 0, prev |-> "previous", new |-> NoName]

\* newUsageReportingService: both channels made, Serve not yet started.
InitUsageReporting ==
    /\ urStopClosed = FALSE
    /\ urForceRunClosed = FALSE
    /\ urServe = "new"
    /\ urTimer = "initial"
    /\ urCommit = "idle"
    /\ urStop = "idle"
    /\ urReports = 0

(***************************************************************************)
(* Initial state: the service as newVirtualFolder leaves it.               *)
(***************************************************************************)
\* The order policy only decides which pending job Pop returns first; the
\* service is started here under the alphabetic one.
InitFolder ==
    /\ blockMap = <<>>
    /\ pendingChan = 0
    /\ queued = <<>>
    /\ progress = <<>>
    /\ ctxDone = FALSE
    /\ serve = "new"
    /\ mounted = FALSE
    /\ localHave = {}
    /\ localSeq = 0
    /\ unannounced = {}
    /\ workers = EmptyBag
    /\ cpc = "idle"
    /\ cop = "none"
    /\ cname = NoName
    /\ wasNew = "none"
    /\ ctodo = <<>>
    /\ accepted = 0
    /\ rpc = "idle"
    /\ rhash = <<>>
    /\ front = NoName
    /\ calls = [c \in Callers |-> IdleCall]
    /\ shadow = [h \in CacheHashes |-> Missing]
    /\ cacheRet = NoReturn
    /\ snapsOpen = 0
    /\ scanRet = "none"
    /\ ino_mu = NoName
    /\ ino_mapping = <<>>
    /\ next_ino_nr = 1
    /\ InitDownloadState
    /\ InitWatch
    /\ InitUpgrade
    /\ InitUsageReporting

\* No call of relayAddressesOrder.
NoRelay == relayInput = << >> /\ relayLatency = << >> /\ relayOutput = << "none" >>

Init == order = "alphabetic" /\ observed = FALSE /\ InitFolder /\ NoRelay

\* The open snapshots after a call of fset.Snapshot(): a snapshot that was
\* acquired stays open until its Release is called.
Acquired(snapOk) == IF observed /\ snapOk THEN snapsOpen + 1 ELSE snapsOpen

\* What Scan's caller sees of the call.
Returned(result) == IF observed THEN result ELSE scanRet

(***************************************************************************)
(* RequestBackgroundDownload, called by the control plane or by Scan.  The *)
(* caller is one thread; PushIfNew, SortAccordingToConfig and the send on  *)
(* the wakeup channel are separate steps of it, each atomic.               *)
(***************************************************************************)
\* Where the caller goes when RequestBackgroundDownload returns.
ReturnFromRequest ==
    /\ cname' = NoName
    /\ wasNew' = "none"
    /\ IF cop = "scan"
       THEN cpc' = "scan" /\ cop' = cop
       ELSE cpc' = "idle" /\ cop' = "none"

\* wasNew := f.backgroundDownloadQueue.Push(...): the name is appended
\* whether or not it is already pending or in progress.
RequestPush_alwaysPush(name, size, modified) ==
    /\ queued' = Append(queued, Entry(name, size, modified))
    /\ accepted' = accepted + 1
    /\ wasNew' = "new"
    /\ cname' = name
    /\ cpc' = "pushed"

\* wasNew := f.backgroundDownloadQueue.PushIfNew(filename, size, modified)
RequestPush(name, size, modified) ==
    /\ IF IsNew(queued, progress, name)
       THEN /\ queued' = Append(queued, Entry(name, size, modified))
            /\ accepted' = accepted + 1
            /\ wasNew' = "new"
       ELSE /\ UNCHANGED << queued, accepted >>
            /\ wasNew' = IF name \in QueuedNames(queued) THEN "pending" ELSE "inprogress"
    /\ cname' = name
    /\ cpc' = "pushed"

\* The control plane calls RequestBackgroundDownload(name, size, modified),
\* while fewer than bound requests have been accepted.
RequestWithin(name, bound) ==
    /\ cpc = "idle"
    /\ accepted < bound
    /\ RequestPush(name, JobSize(name), JobModTime(name))
    /\ cop' = "request"
    /\ UNCHANGED ctodo
    /\ UNCHANGED << libVars, order, blockMap, pendingChan, progress, ctxDone, serve, mounted >>
    /\ UNCHANGED << indexVars, workerVars, readerVars >>
    /\ UNCHANGED obsVars

RequestCall(name) == RequestWithin(name, MaxAccepted)

\* The return on !wasNew, and the send without SortAccordingToConfig.
RequestSort_noSort ==
    /\ cpc = "pushed"
    /\ IF wasNew = "new"
       THEN /\ cpc' = "send"
            /\ wasNew' = "none"
            /\ UNCHANGED << cop, cname >>
       ELSE ReturnFromRequest
    /\ UNCHANGED << ctodo, accepted, queued >>
    /\ UNCHANGED << libVars, order, blockMap, pendingChan, progress, ctxDone, serve, mounted >>
    /\ UNCHANGED << indexVars, workerVars, readerVars >>
    /\ UNCHANGED obsVars

\* SortAccordingToConfig(f.Order) and the send, without the return on !wasNew.
RequestSort_ignoreWasNew ==
    /\ cpc = "pushed"
    /\ queued' = SortAccordingToConfig(order, queued)
    /\ cpc' = "send"
    /\ wasNew' = "none"
    /\ UNCHANGED << cop, cname >>
    /\ UNCHANGED << ctodo, accepted >>
    /\ UNCHANGED << libVars, order, blockMap, pendingChan, progress, ctxDone, serve, mounted >>
    /\ UNCHANGED << indexVars, workerVars, readerVars >>
    /\ UNCHANGED obsVars

\* if !wasNew { return }; f.backgroundDownloadQueue.SortAccordingToConfig(f.Order)
RequestSort ==
    /\ cpc = "pushed"
    /\ IF wasNew = "new"
       THEN /\ queued' = SortAccordingToConfig(order, queued)
            /\ cpc' = "send"
            /\ wasNew' = "none"
            /\ UNCHANGED << cop, cname >>
       ELSE /\ ReturnFromRequest
            /\ UNCHANGED queued
    /\ UNCHANGED << ctodo, accepted >>
    /\ UNCHANGED << libVars, order, blockMap, pendingChan, progress, ctxDone, serve, mounted >>
    /\ UNCHANGED << indexVars, workerVars, readerVars >>
    /\ UNCHANGED obsVars

\* select { case f.backgroundDownloadPending <- struct{}{}: default: }
ChanSend(n) == IF n < ChanCap THEN n + 1 ELSE n

\* The non-blocking send, and the return of RequestBackgroundDownload.
RequestSend ==
    /\ cpc = "send"
    /\ pendingChan' = ChanSend(pendingChan)
    /\ ReturnFromRequest
    /\ UNCHANGED << ctodo, accepted >>
    /\ UNCHANGED << libVars, order, blockMap, queued, progress, ctxDone, serve, mounted >>
    /\ UNCHANGED << indexVars, workerVars, readerVars >>
    /\ UNCHANGED obsVars

(***************************************************************************)
(* Scan.                                                                   *)
(***************************************************************************)
\* snap, err := vf.fset.Snapshot(); if err != nil { return err }
ScanCall ==
    /\ cpc = "idle"
    /\ accepted + Cardinality(NeededFiles(localHave)) <= MaxAccepted
    /\ snapsOpen < MaxSnapshots
    /\ \/ /\ cpc' = "scan"
          /\ cop' = "scan"
          /\ ctodo' = Needed(localHave)
          /\ snapsOpen' = Acquired(TRUE)
          /\ scanRet' = Returned("running")
          /\ UNCHANGED << cname, wasNew, accepted >>
       \/ /\ scanRet' = Returned("err")
          /\ UNCHANGED << callerVars, snapsOpen >>
    /\ UNCHANGED << libVars, folderVars, indexVars, workerVars, readerVars >>
    /\ UNCHANGED << front, apiVars, observed >>

\* A Scan that passes over the needed directories without adopting them.
ScanVisit_skipDirs ==
    /\ cpc = "scan"
    /\ IF ctodo = <<>>
       THEN /\ cpc' = "idle"
            /\ cop' = "none"
            /\ scanRet' = Returned("nil")
            /\ UNCHANGED << cname, wasNew, ctodo, accepted, queued, indexVars >>
       ELSE /\ ctodo' = Tail(ctodo)
            /\ UNCHANGED scanRet
            /\ IF GlobalIndex[Head(ctodo)].isDir
               THEN UNCHANGED << cpc, cop, cname, wasNew, accepted, queued, indexVars >>
               ELSE /\ RequestPush(Head(ctodo), GlobalIndex[Head(ctodo)].size,
                                   GlobalIndex[Head(ctodo)].modTime)
                    /\ UNCHANGED << cop, indexVars >>
    /\ UNCHANGED << libVars, order, blockMap, pendingChan, progress, ctxDone, serve, mounted >>
    /\ UNCHANGED << workerVars, readerVars >>
    /\ UNCHANGED << front, apiVars, observed, snapsOpen >>

\* One visit of WithNeedTruncated's callback, or the return after the last.
ScanVisit ==
    /\ cpc = "scan"
    /\ IF ctodo = <<>>
       THEN /\ cpc' = "idle"
            /\ cop' = "none"
            /\ scanRet' = Returned("nil")
            /\ UNCHANGED << cname, wasNew, ctodo, accepted, queued, indexVars >>
       ELSE /\ ctodo' = Tail(ctodo)
            /\ UNCHANGED scanRet
            /\ IF GlobalIndex[Head(ctodo)].isDir
               THEN /\ UpdateOne(Head(ctodo))
                    /\ UNCHANGED << cpc, cop, cname, wasNew, accepted, queued >>
               ELSE /\ RequestPush(Head(ctodo), GlobalIndex[Head(ctodo)].size,
                                   GlobalIndex[Head(ctodo)].modTime)
                    /\ UNCHANGED << cop, indexVars >>
    /\ UNCHANGED << libVars, order, blockMap, pendingChan, progress, ctxDone, serve, mounted >>
    /\ UNCHANGED << workerVars, readerVars >>
    /\ UNCHANGED << front, apiVars, observed, snapsOpen >>

(***************************************************************************)
(* Serve_backgroundDownloadTask.  A worker's local state is a record:      *)
(*   pc        where it is: "wait", "pop", "block", "pull", "update",      *)
(*             "seq", "log", "done", "returned"                            *)
(*   job       the popped job                                              *)
(*   bidx      the index in fi.Blocks of the block being fetched           *)
(*   all_ok    the variable all_ok                                         *)
(*   seq       the variable seq                                            *)
(*   jobFailed some block fetch of the current job returned false          *)
(*   nUpd      updateOne calls made for the current job                    *)
(*   nEvt      events emitted for the current job                          *)
(*   evt       the event emitted last for the current job                  *)
(*   fetched   block fetches of the current job that returned true         *)
(*   updSeq    the sequence number the job's updateOne was given           *)
(***************************************************************************)
IdleWorker(pc) ==
    [pc |-> pc, job |-> NoName, bidx |-> 0, all_ok |-> TRUE, seq |-> 0,
     jobFailed |-> FALSE, nUpd |-> 0, nEvt |-> 0, evt |-> NoEvent,
     fetched |-> 0, updSeq |-> 0, nReq |-> 0, okBlocks |-> {}]

\* The worker in state w moves to state w2.
Replace(w, w2) == (workers (-) SetToBag({w})) (+) SetToBag({w2})

JobBlocks(w) == GlobalIndex[w.job].blocks

\* The statements after the block loop, with the event logged first.
PublishSteps_logFirst == << "seq", "log", "update" >>

\* The statements after the block loop, with the sequence read first.
PublishSteps_seqFirst == << "seq", "update", "log" >>

\* The statements after the block loop, in order: UpdateOne, Sequence, Log.
PublishSteps == << "update", "seq", "log" >>

\* The statement after step cur; the deferred Done after the last.
NextStep(cur) ==
    LET i == CHOOSE k \in DOMAIN PublishSteps : PublishSteps[k] = cur
    IN IF i < Len(PublishSteps) THEN PublishSteps[i + 1] ELSE "done"

\* all_ok = all_ok && ok, with only the last block's result kept.
AllOkNext_lastOnly(cur, ok) == ok

\* all_ok = all_ok && ok
AllOkNext(cur, ok) == cur /\ ok

\* A block loop that asks for a block again when its fetch has failed.
AfterBlock_retry(w, ok) ==
    IF ~ok
    THEN [w EXCEPT !.pc = "block"]
    ELSE IF w.bidx < Len(JobBlocks(w))
    THEN [w EXCEPT !.bidx = w.bidx + 1, !.pc = "block", !.fetched = w.fetched + 1]
    ELSE [w EXCEPT !.fetched = w.fetched + 1,
                   !.pc = IF w.all_ok THEN PublishSteps[1] ELSE "done"]

\* A block loop that is left at the first block whose fetch has failed.
AfterBlock_stopAtFailure(w, ok) ==
    IF ~ok
    THEN [w EXCEPT !.all_ok = FALSE, !.jobFailed = TRUE, !.pc = "done"]
    ELSE IF w.bidx < Len(JobBlocks(w))
    THEN [w EXCEPT !.bidx = w.bidx + 1, !.pc = "block", !.fetched = w.fetched + 1,
                   !.okBlocks = w.okBlocks \cup {w.bidx}]
    ELSE [w EXCEPT !.fetched = w.fetched + 1, !.okBlocks = w.okBlocks \cup {w.bidx},
                   !.pc = IF w.all_ok THEN PublishSteps[1] ELSE "done"]

\* The block loop once GetBlockDataFromCacheOrDownload has returned ok for
\* block bidx: on to the next block, or to the check of all_ok after the last.
AfterBlock(w, ok) ==
    LET got == [w EXCEPT !.all_ok = AllOkNext(w.all_ok, ok),
                         !.jobFailed = w.jobFailed \/ ~ok,
                         !.fetched = w.fetched + (IF ok THEN 1 ELSE 0),
                         !.okBlocks = IF ok THEN w.okBlocks \cup {w.bidx} ELSE w.okBlocks]
    IN IF w.bidx < Len(JobBlocks(w))
       THEN [got EXCEPT !.bidx = w.bidx + 1, !.pc = "block"]
       ELSE [got EXCEPT !.pc = IF AllOkNext(w.all_ok, ok) THEN PublishSteps[1] ELSE "done"]

\* The processing of a popped job with Done called at the end of the
\* processing instead of deferred: an early return skips it.
StartJob_doneNotDeferred(w, name, snapOk) ==
    IF ~snapOk \/ name \notin GlobalNames
    THEN IdleWorker("pop")
    ELSE IF GlobalIndex[name].blocks = <<>>
    THEN [w EXCEPT !.job = name, !.all_ok = TRUE, !.pc = PublishSteps[1]]
    ELSE [w EXCEPT !.job = name, !.all_ok = TRUE, !.bidx = 1, !.pc = "block"]

\* The processing of a popped job up to the block loop:
\* snap, err := f.fset.Snapshot(); fi, ok := snap.GetGlobal(job); all_ok := true
StartJob(w, name, snapOk) ==
    IF ~snapOk \/ name \notin GlobalNames
    THEN [w EXCEPT !.job = name, !.pc = "done"]
    ELSE IF GlobalIndex[name].blocks = <<>>
    THEN [w EXCEPT !.job = name, !.all_ok = TRUE, !.pc = PublishSteps[1]]
    ELSE [w EXCEPT !.job = name, !.all_ok = TRUE, !.bidx = 1, !.pc = "block"]

\* A wait that listens only to the wakeup channel, never to the context.
WorkerWait_ignoreCtx(w) ==
    /\ w.pc = "wait"
    /\ pendingChan > 0
    /\ pendingChan' = pendingChan - 1
    /\ workers' = Replace(w, [w EXCEPT !.pc = "pop"])
    /\ UNCHANGED << libVars, order, blockMap, queued, progress, ctxDone, serve, mounted >>
    /\ UNCHANGED << indexVars, callerVars, readerVars >>
    /\ UNCHANGED obsVars

\* select { case <-f.ctx.Done(): return; case <-f.backgroundDownloadPending: }
WorkerWait(w) ==
    /\ w.pc = "wait"
    /\ \/ /\ ctxDone
          /\ workers' = Replace(w, [w EXCEPT !.pc = "returned"])
          /\ UNCHANGED pendingChan
       \/ /\ pendingChan > 0
          /\ pendingChan' = pendingChan - 1
          /\ workers' = Replace(w, [w EXCEPT !.pc = "pop"])
    /\ UNCHANGED << libVars, order, blockMap, queued, progress, ctxDone, serve, mounted >>
    /\ UNCHANGED << indexVars, callerVars, readerVars >>
    /\ UNCHANGED obsVars

\* Pop with the job marked done at once instead of by the deferred Done.
WorkerPop_doneAtOnce(w) ==
    /\ w.pc = "pop"
    /\ IF queued = <<>>
       THEN /\ workers' = Replace(w, [w EXCEPT !.pc = "wait"])
            /\ UNCHANGED << queued, progress, snapsOpen >>
       ELSE /\ queued' = Tail(queued)
            /\ UNCHANGED progress
            /\ \E snapOk \in BOOLEAN :
                  /\ workers' = Replace(w, StartJob(w, Head(queued).name, snapOk))
                  /\ snapsOpen' = Acquired(snapOk)
    /\ UNCHANGED << libVars, order, blockMap, pendingChan, ctxDone, serve, mounted >>
    /\ UNCHANGED << indexVars, callerVars, readerVars >>
    /\ front' = (IF queued = <<>> THEN front ELSE NoName)
    /\ UNCHANGED << apiVars, observed, scanRet >>

\* for job, ok := f.backgroundDownloadQueue.Pop(); ok; job, ok = ...Pop()
WorkerPop(w) ==
    /\ w.pc = "pop"
    /\ IF queued = <<>>
       THEN /\ workers' = Replace(w, [w EXCEPT !.pc = "wait"])
            /\ UNCHANGED << queued, progress, snapsOpen >>
       ELSE /\ queued' = Tail(queued)
            /\ progress' = Append(progress, Head(queued).name)
            /\ \E snapOk \in BOOLEAN :
                  /\ workers' = Replace(w, StartJob(w, Head(queued).name, snapOk))
                  /\ snapsOpen' = Acquired(snapOk)
    /\ UNCHANGED << libVars, order, blockMap, pendingChan, ctxDone, serve, mounted >>
    /\ UNCHANGED << indexVars, callerVars, readerVars >>
    /\ front' = (IF queued = <<>> THEN front ELSE NoName)
    /\ UNCHANGED << apiVars, observed, scanRet >>

\* data, ok := vFSS.blockCache.Get(block.Hash); if !ok { pullBlockBase(...) }
WorkerBlock(w) ==
    /\ w.pc = "block"
    /\ IF CacheHas(blockMap, JobBlocks(w)[w.bidx])
       THEN workers' = Replace(w, AfterBlock([w EXCEPT !.nReq = w.nReq + 1], TRUE))
       ELSE workers' = Replace(w, [w EXCEPT !.pc = "pull", !.nReq = w.nReq + 1])
    /\ UNCHANGED << libVars, folderVars, indexVars, callerVars, readerVars >>
    /\ UNCHANGED obsVars

\* pullBlockBase returns: an error, or the block's bytes, which are cached.
WorkerPull(w) ==
    /\ w.pc = "pull"
    /\ \/ /\ workers' = Replace(w, AfterBlock(w, FALSE))
          /\ UNCHANGED blockMap
       \/ /\ blockMap' = CacheSet(blockMap, JobBlocks(w)[w.bidx],
                                  BlockData(JobBlocks(w)[w.bidx]))
          /\ workers' = Replace(w, AfterBlock(w, TRUE))
    /\ UNCHANGED << libVars, order, pendingChan, queued, progress, ctxDone, serve, mounted >>
    /\ UNCHANGED << indexVars, callerVars, readerVars >>
    /\ UNCHANGED obsVars

\* f.fset.UpdateOne(protocol.LocalDeviceID, &fi)
WorkerUpdateOne(w) ==
    /\ w.pc = "update"
    /\ UpdateOne(w.job)
    /\ workers' = Replace(w, [w EXCEPT !.nUpd = w.nUpd + 1, !.updSeq = localSeq + 1,
                                       !.pc = NextStep("update")])
    /\ UNCHANGED << libVars, folderVars, callerVars, readerVars >>
    /\ UNCHANGED obsVars

\* seq := f.fset.Sequence(protocol.LocalDeviceID)
WorkerSequence(w) ==
    /\ w.pc = "seq"
    /\ workers' = Replace(w, [w EXCEPT !.seq = localSeq, !.pc = NextStep("seq")])
    /\ UNCHANGED << libVars, folderVars, indexVars, callerVars, readerVars >>
    /\ UNCHANGED obsVars

\* f.evLogger.Log(events.LocalIndexUpdated, ...)
WorkerLog(w) ==
    /\ w.pc = "log"
    /\ unannounced' = unannounced \ {w.job}
    /\ workers' = Replace(w, [w EXCEPT !.nEvt = w.nEvt + 1, !.pc = NextStep("log"),
                                       !.evt = EventRec(w.job, w.seq)])
    /\ UNCHANGED << localHave, localSeq >>
    /\ UNCHANGED << libVars, folderVars, callerVars, readerVars >>
    /\ UNCHANGED obsVars

\* defer f.backgroundDownloadQueue.Done(job), and back to the head of the
\* select instead of the next Pop.
WorkerDone_noDrain(w) ==
    /\ w.pc = "done"
    /\ progress' = RemoveFirst(progress, w.job)
    /\ workers' = Replace(w, IdleWorker("wait"))
    /\ UNCHANGED << libVars, order, blockMap, pendingChan, queued, ctxDone, serve, mounted >>
    /\ UNCHANGED << indexVars, callerVars, readerVars >>
    /\ UNCHANGED obsVars

\* defer f.backgroundDownloadQueue.Done(job), and on to the next Pop
WorkerDone(w) ==
    /\ w.pc = "done"
    /\ progress' = RemoveFirst(progress, w.job)
    /\ workers' = Replace(w, IdleWorker("pop"))
    /\ UNCHANGED << libVars, order, blockMap, pendingChan, queued, ctxDone, serve, mounted >>
    /\ UNCHANGED << indexVars, callerVars, readerVars >>
    /\ UNCHANGED obsVars

(***************************************************************************)
(* GetBlockDataFromCacheOrDownload, as a FUSE read runs it for one block.  *)
(***************************************************************************)
\* A read through the mount reaches a block with the given hash:
\* data, ok := vFSS.blockCache.Get(block.Hash); if !ok { pullBlockBase(...) }
ReaderGet(hash) ==
    /\ mounted
    /\ rpc = "idle"
    /\ IF CacheHas(blockMap, hash)
       THEN UNCHANGED readerVars
       ELSE rpc' = "pull" /\ rhash' = hash
    /\ UNCHANGED << libVars, folderVars, indexVars, workerVars, callerVars >>
    /\ UNCHANGED obsVars

\* pullBlockBase returns: an error, or the block's bytes, which are cached.
ReaderPull ==
    /\ rpc = "pull"
    /\ \/ UNCHANGED blockMap
       \/ blockMap' = CacheSet(blockMap, rhash, BlockData(rhash))
    /\ rpc' = "idle"
    /\ rhash' = <<>>
    /\ UNCHANGED << libVars, order, pendingChan, queued, progress, ctxDone, serve, mounted >>
    /\ UNCHANGED << indexVars, workerVars, callerVars >>
    /\ UNCHANGED obsVars

(***************************************************************************)
(* Serve.                                                                  *)
(***************************************************************************)
PathKinds == {"plain", "virtualMountAt", "virtualNoMountAt"}

\* Serve with the workers started before the folder is mounted.
ServeStart_workersFirst(pathKind, mountOk) ==
    /\ serve = "new"
    /\ IF pathKind = "virtualNoMountAt"
       THEN /\ serve' = "failedDescriptor"
            /\ UNCHANGED << mounted, workers >>
       ELSE /\ serve' = (IF mountOk THEN "running" ELSE "failedMount")
            /\ mounted' = mountOk
            /\ workers' = (IdleWorker("wait") :> backgroundDownloadTasks)
    /\ UNCHANGED << libVars, order, blockMap, pendingChan, queued, progress, ctxDone >>
    /\ UNCHANGED << indexVars, callerVars, readerVars >>
    /\ UNCHANGED obsVars

\* Serve up to the start of the workers: the virtual descriptor is parsed,
\* the block cache created and the folder mounted.
ServeStart(pathKind, mountOk) ==
    /\ serve = "new"
    /\ IF pathKind = "virtualNoMountAt" \/ ~mountOk
       THEN /\ serve' = (IF pathKind = "virtualNoMountAt"
                         THEN "failedDescriptor" ELSE "failedMount")
            /\ UNCHANGED << mounted, workers >>
       ELSE /\ serve' = "running"
            /\ mounted' = TRUE
            /\ workers' = (IdleWorker("wait") :> backgroundDownloadTasks)
    /\ UNCHANGED << libVars, order, blockMap, pendingChan, queued, progress, ctxDone >>
    /\ UNCHANGED << indexVars, callerVars, readerVars >>
    /\ UNCHANGED obsVars

\* The supervisor cancels the context passed to Serve.
Cancel ==
    /\ serve = "running"
    /\ ~ctxDone
    /\ ctxDone' = TRUE
    /\ UNCHANGED << libVars, order, blockMap, pendingChan, queued, progress, serve, mounted >>
    /\ UNCHANGED << indexVars, workerVars, callerVars, readerVars >>
    /\ UNCHANGED obsVars

\* case <-ctx.Done(): return nil, without f.mountService.Close()
ServeReturn_noClose ==
    /\ serve = "running"
    /\ ctxDone
    /\ serve' = "returned"
    /\ UNCHANGED << libVars, order, blockMap, pendingChan, queued, progress, ctxDone, mounted >>
    /\ UNCHANGED << indexVars, workerVars, callerVars, readerVars >>
    /\ UNCHANGED obsVars

\* case <-ctx.Done(): f.mountService.Close(); return nil
ServeReturn ==
    /\ serve = "running"
    /\ ctxDone
    /\ mounted' = FALSE
    /\ serve' = "returned"
    /\ UNCHANGED << libVars, order, blockMap, pendingChan, queued, progress, ctxDone >>
    /\ UNCHANGED << indexVars, workerVars, callerVars, readerVars >>
    /\ UNCHANGED obsVars

(***************************************************************************)
(* The specification.                                                      *)
(***************************************************************************)
Next ==
    \/ \E name \in RequestableNames : RequestCall(name)
    \/ RequestSort
    \/ RequestSend
    \/ ScanCall
    \/ ScanVisit
    \/ \E w \in BagToSet(workers) : WorkerWait(w)
    \/ \E w \in BagToSet(workers) : WorkerPop(w)
    \/ \E w \in BagToSet(workers) : WorkerBlock(w)
    \/ \E w \in BagToSet(workers) : WorkerPull(w)
    \/ \E w \in BagToSet(workers) : WorkerUpdateOne(w)
    \/ \E w \in BagToSet(workers) : WorkerSequence(w)
    \/ \E w \in BagToSet(workers) : WorkerLog(w)
    \/ \E w \in BagToSet(workers) : WorkerDone(w)
    \/ \E hash \in Hashes : ReaderGet(hash)
    \/ ReaderPull
    \/ \E pathKind \in PathKinds, mountOk \in BOOLEAN : ServeStart(pathKind, mountOk)
    \/ Cancel
    \/ ServeReturn

Spec == Init /\ [][Next]_vars

(***************************************************************************)
(* Properties.                                                             *)
(***************************************************************************)
WorkerSet == BagToSet(workers)

\* The workers, as a bag, that have a pullBlockBase call in flight for hash h.
WorkerPulls(h) ==
    [w \in {x \in WorkerSet : x.pc = "pull" /\ JobBlocks(x)[x.bidx] = h} |-> workers[w]]

\* All pullBlockBase calls in flight for hash h.
PullsInFlight(h) ==
    BagCardinality(WorkerPulls(h)) + (IF rpc = "pull" /\ rhash = h THEN 1 ELSE 0)

\* The files of the global index that have a block with hash h.
FilesWith(h) == {n \in GlobalNames : h \in SeqToSet(GlobalIndex[n].blocks)}

\* C1: a job one of whose block fetches failed gets no updateOne and no
\* LocalIndexUpdated event: the worker neither has performed them nor is on
\* its way to them.
C1_AllOrNothing ==
    \A w \in WorkerSet :
        w.jobFailed => /\ w.nUpd = 0
                       /\ w.nEvt = 0
                       /\ w.pc \notin {"update", "seq", "log"}

\* A job of two blocks has been dropped after one fetch succeeded and one failed.
C1_Witness ==
    \E w \in WorkerSet :
        w.pc = "done" /\ w.jobFailed /\ w.fetched = 1 /\ w.nUpd = 0 /\ w.nEvt = 0

\* C2: an event for a job's file is emitted only after the updateOne of that
\* job: whenever a worker has emitted its event, it has performed its
\* updateOne, the event names the job's file and the local index holds it.
C2_EventAfterUpdate ==
    \A w \in WorkerSet :
        /\ w.nEvt <= w.nUpd
        /\ w.nEvt > 0 => (w.job \in localHave /\ w.evt.filenames = <<w.job>>)

\* A worker has emitted its event while another is between its updateOne and
\* its event.
C2_Witness ==
    \E w1, w2 \in WorkerSet :
        /\ w1.pc = "done" /\ w1.nEvt = 1 /\ w1.nUpd = 1
        /\ w2.pc \in {"seq", "log"} /\ w2.nUpd = 1 /\ w2.nEvt = 0

\* C3: when a job's name is in the global index and every block of the file
\* was fetched successfully, the job ends with exactly one updateOne and
\* exactly one event {items: 1, filenames: [name], sequence: s, version: s},
\* s being the local sequence read after the update.
C3_PublishOnce ==
    \A w \in WorkerSet :
        (/\ w.pc = "done"
         /\ w.job \in GlobalNames
         /\ w.fetched = Len(GlobalIndex[w.job].blocks))
        => /\ w.nUpd = 1
           /\ w.nEvt = 1
           /\ w.job \in localHave
           /\ w.evt = [op |-> "LocalIndexUpdated", items |-> 1,
                       filenames |-> <<w.job>>, sequence |-> w.seq, version |-> w.seq]
           /\ w.updSeq <= w.seq
           /\ w.seq <= localSeq

\* The two-block file has been published, with a sequence read after another
\* update had followed the job's own.
C3_Witness ==
    \E w \in WorkerSet :
        /\ w.pc = "done" /\ w.job = "a" /\ w.fetched = 2
        /\ w.nUpd = 1 /\ w.nEvt = 1 /\ w.seq > w.updSeq

\* C4: every adoption into the local index is followed by an event naming the
\* entry: a name adopted and not yet named by an event belongs to a worker
\* that is about to emit the event, or to a Scan that is still running.
C4_AdoptionAnnounced ==
    \A n \in unannounced :
        \/ cop = "scan"
        \/ \E w \in WorkerSet : w.job = n /\ w.pc \in {"seq", "log"}

\* C5: each name is pending at most once and never both pending and in
\* progress.
C5_Unique ==
    /\ \A i, j \in DOMAIN queued : queued[i].name = queued[j].name => i = j
    /\ QueuedNames(queued) \cap SeqToSet(progress) = {}

\* C5: a PushIfNew that finds the name pending or in progress adds nothing,
\* and the call then returns without sorting and without sending a token.
C5_DuplicateStep ==
    /\ (cpc' = "pushed" /\ cpc # "pushed" /\ wasNew' # "new") => queued' = queued
    /\ (cpc = "pushed" /\ cpc' # "pushed" /\ wasNew # "new")
       => (cpc' \in {"idle", "scan"} /\ queued' = queued /\ pendingChan' = pendingChan)

\* C5: RequestBackgroundDownload is idempotent for a name already pending or
\* in progress (no entry, no sort, no token), and names stay unique.
C5_Idempotent == []C5_Unique /\ [][C5_DuplicateStep]_vars

\* A request for a name that is pending has just been answered "not new".
C5_Witness == cpc = "pushed" /\ wasNew = "pending" /\ cname \in QueuedNames(queued)

\* C6: a name whose job a worker is processing is not pending: a re-request
\* made before the worker's Done does not enqueue it.
C6_NotPendingWhileProcessing ==
    \A w \in WorkerSet : w.job # NoName => w.job \notin QueuedNames(queued)

\* A re-request of a name in progress has just been answered "not new".
C6_Witness ==
    /\ cpc = "pushed" /\ wasNew = "inprogress"
    /\ \E w \in WorkerSet : w.job = cname /\ w.pc = "pull"

\* C7: no two workers hold a job for the same name.
C7_OneWorkerPerName ==
    \A w \in WorkerSet :
        w.job # NoName => /\ CopiesIn(w, workers) = 1
                          /\ \A w2 \in WorkerSet : w2.job = w.job => w2 = w

\* Two workers are fetching blocks at once, for different files.
C7_Witness ==
    \E w1, w2 \in WorkerSet :
        w1.job = "a" /\ w2.job = "b" /\ w1.pc = "pull" /\ w2.pc = "pull"

\* C8 as stated: at most one pullBlockBase call in flight per block hash.
C8_OnePullPerHash == \A h \in Hashes : PullsInFlight(h) <= 1

\* C8: the workers with a pull in flight for one hash process different
\* files, so there are at most as many as there are files with that block.
C8_OnePullPerFile ==
    \A h \in Hashes :
        /\ BagCardinality(WorkerPulls(h)) <= Cardinality(FilesWith(h))
        /\ \A w1, w2 \in BagToSet(WorkerPulls(h)) : w1.job = w2.job => w1 = w2

\* Three pulls of one hash are in flight: two workers, on different files
\* that share the block, and the FUSE reader.
C8_Witness == PullsInFlight(HashB) = 3

\* C9: the wakeup channel holds at most one token, the send never blocks, and
\* once requests have been accepted with no worker started exactly one token
\* is buffered.
C9_TokenInv ==
    /\ pendingChan \in {0, 1}
    /\ cpc = "send" => ENABLED RequestSend
    /\ (workers = EmptyBag /\ cpc = "idle" /\ accepted >= 1) => pendingChan = 1

\* C9: a token is sent only by the send of a call whose PushIfNew added the
\* name, and that send leaves exactly one token buffered.
C9_SendStep ==
    /\ pendingChan' > pendingChan => (cpc = "send" /\ pendingChan' = 1)
    /\ (cpc' = "send" /\ cpc # "send") => wasNew = "new"
    /\ (cpc = "send" /\ cpc' # "send") => pendingChan' = 1

\* C9: the wakeup channel never holds more than one token.
C9_WakeToken == []C9_TokenInv /\ [][C9_SendStep]_vars

\* Two names have been accepted with no worker started: one token is buffered.
C9_Witness ==
    /\ workers = EmptyBag /\ cpc = "idle"
    /\ accepted = 2 /\ Len(queued) = 2 /\ pendingChan = 1

(***************************************************************************)
(* The service with its context never cancelled: Serve's main loop stays   *)
(* in its select, the worker goroutines and a running call or Scan are     *)
(* scheduled fairly, and every pullBlockBase call returns.  Whether and    *)
(* when a caller, a Scan, a FUSE read or Serve itself starts is left to    *)
(* the environment.                                                        *)
(***************************************************************************)
LiveNext ==
    \/ \E name \in RequestableNames : RequestCall(name)
    \/ RequestSort
    \/ RequestSend
    \/ ScanCall
    \/ ScanVisit
    \/ \E w \in BagToSet(workers) : WorkerWait(w)
    \/ \E w \in BagToSet(workers) : WorkerPop(w)
    \/ \E w \in BagToSet(workers) : WorkerBlock(w)
    \/ \E w \in BagToSet(workers) : WorkerPull(w)
    \/ \E w \in BagToSet(workers) : WorkerUpdateOne(w)
    \/ \E w \in BagToSet(workers) : WorkerSequence(w)
    \/ \E w \in BagToSet(workers) : WorkerLog(w)
    \/ \E w \in BagToSet(workers) : WorkerDone(w)
    \/ \E hash \in Hashes : ReaderGet(hash)
    \/ ReaderPull
    \/ \E pathKind \in PathKinds, mountOk \in BOOLEAN : ServeStart(pathKind, mountOk)

LiveFairness ==
    /\ WF_vars(RequestSort)
    /\ WF_vars(RequestSend)
    /\ WF_vars(ScanVisit)
    /\ WF_vars(\E w \in BagToSet(workers) : WorkerWait(w))
    /\ WF_vars(\E w \in BagToSet(workers) : WorkerPop(w))
    /\ WF_vars(\E w \in BagToSet(workers) : WorkerBlock(w))
    /\ WF_vars(\E w \in BagToSet(workers) : WorkerPull(w))
    /\ WF_vars(\E w \in BagToSet(workers) : WorkerUpdateOne(w))
    /\ WF_vars(\E w \in BagToSet(workers) : WorkerSequence(w))
    /\ WF_vars(\E w \in BagToSet(workers) : WorkerLog(w))
    /\ WF_vars(\E w \in BagToSet(workers) : WorkerDone(w))

LiveSpec == Init /\ [][LiveNext]_vars /\ LiveFairness

\* The name is neither pending nor in progress nor held by a worker.
Settled(n) ==
    /\ n \notin QueuedNames(queued)
    /\ n \notin SeqToSet(progress)
    /\ \A w \in WorkerSet : w.job # n

\* C10: no wakeup is lost: while the service runs uncancelled, every pending
\* name is eventually popped, processed and marked done, which leaves it
\* neither pending nor in progress.
C10_NoLostWakeup ==
    \A n \in RequestableNames :
        (serve = "running" /\ n \in QueuedNames(queued)) ~> Settled(n)

\* Two accepted names have both been processed and marked done, and every
\* worker is back in its wait with no token left.
C10_Witness ==
    /\ serve = "running" /\ accepted = 2 /\ cpc = "idle"
    /\ queued = << >> /\ progress = << >> /\ pendingChan = 0
    /\ {"a", "b"} \subseteq localHave
    /\ \A w \in WorkerSet : w.pc = "wait"

(***************************************************************************)
(* The job queue under every order policy: the control plane enqueues, the *)
(* workers pop and process.                                                *)
(***************************************************************************)
QueueInit == order \in Orders /\ observed = FALSE /\ InitFolder /\ NoRelay

QueueNext ==
    \/ \E name \in RequestableNames : RequestWithin(name, MaxQueued)
    \/ RequestSort
    \/ RequestSend
    \/ \E w \in BagToSet(workers) : WorkerWait(w)
    \/ \E w \in BagToSet(workers) : WorkerPop(w)
    \/ \E w \in BagToSet(workers) : WorkerBlock(w)
    \/ \E w \in BagToSet(workers) : WorkerPull(w)
    \/ \E w \in BagToSet(workers) : WorkerUpdateOne(w)
    \/ \E w \in BagToSet(workers) : WorkerSequence(w)
    \/ \E w \in BagToSet(workers) : WorkerLog(w)
    \/ \E w \in BagToSet(workers) : WorkerDone(w)
    \/ \E pathKind \in PathKinds, mountOk \in BOOLEAN : ServeStart(pathKind, mountOk)

QueueSpec == QueueInit /\ [][QueueNext]_vars

\* No entry of q sorts strictly before an entry ahead of it under policy o.
IsSorted(o, q) == \A i, j \in DOMAIN q : i < j => ~Before(o, q[j], q[i])

\* C11: once every enqueue has run its sort, the pending list is in the
\* order of the folder's policy.
C11_PendingSorted == cpc # "pushed" => IsSorted(order, queued)

\* C11: a pop takes the head of the pending list.
C11_PopStep ==
    Len(queued') < Len(queued)
    => /\ queued' = Tail(queued)
       /\ progress' = Append(progress, Head(queued).name)

\* C11: jobs are popped in the order of the folder's configured policy.
C11_PoppedInPolicyOrder == []C11_PendingSorted /\ [][C11_PopStep]_vars

\* Under newest-first three names enqueued oldest first were popped newest
\* first: modification times x < a < b.
C11_Witness ==
    /\ order = "newestFirst"
    /\ progress = << "b", "a", "x" >>

(***************************************************************************)
(* BringToFront, called by the control plane.                              *)
(***************************************************************************)
\* jobQueue.BringToFront: the pending entry of the name moves to the head of
\* the pending list; the other entries keep their order.
MoveToFront(q, name) ==
    SelectSeq(q, LAMBDA e : e.name = name) \o SelectSeq(q, LAMBDA e : e.name # name)

\* BringToFront that puts the name at the head whether or not it is pending.
BringToFrontCall_pushFront(name) ==
    /\ cpc = "idle"
    /\ queued' = << Entry(name, JobSize(name), JobModTime(name)) >>
                 \o SelectSeq(queued, LAMBDA e : e.name # name)
    /\ front' = name
    /\ cpc' = "fronted"
    /\ cop' = "front"
    /\ cname' = name
    /\ UNCHANGED << wasNew, ctodo, accepted >>
    /\ UNCHANGED << libVars, order, blockMap, pendingChan, progress, ctxDone, serve, mounted >>
    /\ UNCHANGED << indexVars, workerVars, readerVars, apiVars, scanObs >>

\* f.backgroundDownloadQueue.BringToFront(filename)
BringToFrontCall(name) ==
    /\ cpc = "idle"
    /\ queued' = MoveToFront(queued, name)
    /\ front' = (IF name \in QueuedNames(queued) THEN name ELSE front)
    /\ cpc' = "fronted"
    /\ cop' = "front"
    /\ cname' = name
    /\ UNCHANGED << wasNew, ctodo, accepted >>
    /\ UNCHANGED << libVars, order, blockMap, pendingChan, progress, ctxDone, serve, mounted >>
    /\ UNCHANGED << indexVars, workerVars, readerVars, apiVars, scanObs >>

\* BringToFront returns.
BringToFrontReturn ==
    /\ cpc = "fronted"
    /\ cpc' = "idle"
    /\ cop' = "none"
    /\ cname' = NoName
    /\ UNCHANGED << wasNew, ctodo, accepted, front >>
    /\ UNCHANGED << libVars, folderVars, indexVars, workerVars, readerVars, apiVars, scanObs >>

FrontNext ==
    \/ \E name \in RequestableNames : RequestWithin(name, MaxQueued)
    \/ RequestSort
    \/ RequestSend
    \/ \E name \in Names : BringToFrontCall(name)
    \/ BringToFrontReturn
    \/ \E w \in BagToSet(workers) : WorkerWait(w)
    \/ \E w \in BagToSet(workers) : WorkerPop(w)
    \/ \E w \in BagToSet(workers) : WorkerBlock(w)
    \/ \E w \in BagToSet(workers) : WorkerPull(w)
    \/ \E w \in BagToSet(workers) : WorkerUpdateOne(w)
    \/ \E w \in BagToSet(workers) : WorkerSequence(w)
    \/ \E w \in BagToSet(workers) : WorkerLog(w)
    \/ \E w \in BagToSet(workers) : WorkerDone(w)
    \/ \E pathKind \in PathKinds, mountOk \in BOOLEAN : ServeStart(pathKind, mountOk)

FrontSpec == Init /\ [][FrontNext]_vars

\* C12 as stated, its second half: whatever runs in between, the Pop that
\* follows BringToFront(X) on a pending X returns X.
C12_NextPopReturnsFront ==
    [][(Len(queued') < Len(queued) /\ front # NoName)
       => progress' = Append(progress, front)]_vars

\* C12: BringToFront(X) leaves the in-progress list alone; on a name that is
\* not pending it leaves the pending list alone; on a pending one it makes X
\* the head and keeps the other entries in their order.
C12_CallStep ==
    (cpc = "idle" /\ cpc' = "fronted")
    => /\ progress' = progress
       /\ IF cname' \in QueuedNames(queued)
          THEN /\ Head(queued').name = cname'
               /\ Len(queued') = Len(queued)
               /\ SelectSeq(queued', LAMBDA e : e.name # cname')
                    = SelectSeq(queued, LAMBDA e : e.name # cname')
          ELSE queued' = queued

\* C12: X stays the head until a Pop, another BringToFront or the sort of an
\* accepted request, and a Pop that finds it there returns it.
C12_HeadStep ==
    (front # NoName /\ queued # << >> /\ Head(queued).name = front)
    => /\ (front' = front /\ ~(cpc = "pushed" /\ wasNew = "new"))
          => (queued' # << >> /\ Head(queued').name = front)
       /\ Len(queued') < Len(queued) => progress' = Append(progress, front)

\* C12: BringToFront is a no-op on a name that is not pending, and brings a
\* pending name to the head, where the next Pop finds it unless an accepted
\* request has sorted the pending list in between.
C12_BringToFront == [][C12_CallStep /\ C12_HeadStep]_vars

\* "b" was brought to the front of "a" under the alphabetic policy.
C12_Witness ==
    /\ front = "b" /\ cpc = "idle"
    /\ Len(queued) = 2 /\ Head(queued).name = "b" /\ queued[2].name = "a"

(***************************************************************************)
(* HashedBlockMapInMemory on its own: one thread calls Set, Get and Delete *)
(* with any hash and data.                                                 *)
(***************************************************************************)
\* hm.Set(hash, data)
CacheSetCall(hash, data) ==
    /\ blockMap' = CacheSet(blockMap, hash, data)
    /\ shadow' = [shadow EXCEPT ![hash] = << data, TRUE >>]
    /\ UNCHANGED << libVars, order, pendingChan, queued, progress, ctxDone, serve, mounted >>
    /\ UNCHANGED << indexVars, workerVars, callerVars, readerVars, front, calls, cacheRet, inoVars, scanObs >>

\* hm.Delete(hash)
CacheDeleteCall(hash) ==
    /\ blockMap' = CacheDelete(blockMap, hash)
    /\ shadow' = [shadow EXCEPT ![hash] = Missing]
    /\ UNCHANGED << libVars, order, pendingChan, queued, progress, ctxDone, serve, mounted >>
    /\ UNCHANGED << indexVars, workerVars, callerVars, readerVars, front, calls, cacheRet, inoVars, scanObs >>

\* The (data, ok) of hm.Get(hash) on the map m.
GetResult(m, hash) == IF CacheHas(m, hash) THEN << CacheGet(m, hash), TRUE >> ELSE Missing

\* data, ok = hm.Get(hash)
CacheGetCall(hash) ==
    /\ cacheRet' = << hash, GetResult(blockMap, hash) >>
    /\ UNCHANGED << libVars, folderVars, indexVars, workerVars, callerVars, readerVars >>
    /\ UNCHANGED << front, calls, shadow, inoVars, scanObs >>

CacheNext ==
    \/ \E hash \in CacheHashes, data \in CacheData : CacheSetCall(hash, data)
    \/ \E hash \in CacheHashes : CacheDeleteCall(hash)
    \/ \E hash \in CacheHashes : CacheGetCall(hash)

CacheSpec == Init /\ [][CacheNext]_vars

\* C13: for every hash, Get finds the data of the last Set of that hash if no
\* Delete of that hash followed it, and nothing otherwise, whatever was done
\* to other hashes.
C13_GetFindsLastSet == \A h \in CacheHashes : GetResult(blockMap, h) = shadow[h]

\* C13: what a Get call returns is (d, true) after Set(h, d), not-found after
\* Delete(h).
C13_GetStep == cacheRet' # cacheRet => cacheRet'[2] = shadow[cacheRet'[1]]

\* C13: the cache round-trip.
C13_RoundTrip == []C13_GetFindsLastSet /\ [][C13_GetStep]_vars

\* Get(<<1, 0>>) returned the data set for it, after a Set of another data on
\* <<16>> and a Set and a Delete on <<1>>.
C13_Witness ==
    /\ cacheRet = << <<1, 0>>, << << "d1" >>, TRUE >> >>
    /\ shadow[<<16>>] = << << "d2" >>, TRUE >>
    /\ shadow[<<1>>] = Missing
    /\ shadow[HashA] = << << >>, TRUE >>

(***************************************************************************)
(* The block methods on their own: threads call                            *)
(* GetBlockDataFromCacheOrDownload through the mount and GetHashBlockData  *)
(* once Serve has created the block cache.                                 *)
(***************************************************************************)
\* f.blockCache is set: Serve got past the virtual descriptor.
CacheExists == serve \in {"running", "returned", "failedMount"}

Min(a, b) == IF a < b THEN a ELSE b

\* GetBlockDataFromCacheOrDownload that pulls the block whether or not the
\* cache holds it.
FetchCall_alwaysPull(c, hash) ==
    /\ mounted
    /\ calls[c].pc = "idle"
    /\ calls' = [calls EXCEPT ![c] =
                  [IdleCall EXCEPT !.op = "fetch", !.pc = "pull", !.hash = hash,
                                   !.hit = CacheHas(blockMap, hash), !.pulls = 1]]
    /\ UNCHANGED << libVars, folderVars, indexVars, workerVars, callerVars, readerVars >>
    /\ UNCHANGED << front, shadow, cacheRet, inoVars, scanObs >>

\* GetBlockDataFromCacheOrDownload up to the cache's answer: a hit returns
\* (data, true), a miss issues pullBlockBase.
FetchCall(c, hash) ==
    /\ mounted
    /\ calls[c].pc = "idle"
    /\ calls' = [calls EXCEPT ![c] =
                  IF CacheHas(blockMap, hash)
                  THEN [op |-> "fetch", pc |-> "idle", hash |-> hash, arg |-> NoArg, idx |-> 0, buf |-> NoData, buflen |-> 0,
                        hit |-> TRUE, pulls |-> 0,
                        ret |-> << CacheGet(blockMap, hash), TRUE >>]
                  ELSE [op |-> "fetch", pc |-> "pull", hash |-> hash, arg |-> NoArg, idx |-> 0, buf |-> NoData, buflen |-> 0,
                        hit |-> FALSE, pulls |-> 1, ret |-> NoReturn]]
    /\ UNCHANGED << libVars, folderVars, indexVars, workerVars, callerVars, readerVars >>
    /\ UNCHANGED << front, shadow, cacheRet, inoVars, scanObs >>

\* pullBlockBase returns, with the data left out of the cache on success.
FetchPull_noSet(c) ==
    /\ calls[c].pc = "pull"
    /\ \/ calls' = [calls EXCEPT ![c].pc = "idle", ![c].ret = << NoData, FALSE >>]
       \/ calls' = [calls EXCEPT ![c].pc = "idle",
                                 ![c].ret = << BlockData(calls[c].hash), TRUE >>]
    /\ UNCHANGED << libVars, folderVars, indexVars, workerVars, callerVars, readerVars >>
    /\ UNCHANGED << front, shadow, cacheRet, inoVars, scanObs >>

\* pullBlockBase returns, with one more pull after a first error.
FetchPull_retry(c) ==
    /\ calls[c].pc = "pull"
    /\ \/ /\ calls' = [calls EXCEPT ![c] =
                        IF calls[c].pulls < 2
                        THEN [calls[c] EXCEPT !.pulls = calls[c].pulls + 1]
                        ELSE [calls[c] EXCEPT !.pc = "idle", !.ret = << NoData, FALSE >>]]
          /\ UNCHANGED blockMap
       \/ /\ blockMap' = CacheSet(blockMap, calls[c].hash, BlockData(calls[c].hash))
          /\ calls' = [calls EXCEPT ![c].pc = "idle",
                                    ![c].ret = << BlockData(calls[c].hash), TRUE >>]
    /\ UNCHANGED << libVars, order, pendingChan, queued, progress, ctxDone, serve, mounted >>
    /\ UNCHANGED << indexVars, workerVars, callerVars, readerVars >>
    /\ UNCHANGED << front, shadow, cacheRet, inoVars, scanObs >>

\* pullBlockBase returns, with the sink's variable shared by the calling
\* threads: the data is that of any call whose pull is in flight.
FetchPull_sharedData(c) ==
    /\ calls[c].pc = "pull"
    /\ \/ /\ calls' = [calls EXCEPT ![c].pc = "idle", ![c].ret = << NoData, FALSE >>]
          /\ UNCHANGED blockMap
       \/ \E c2 \in Callers :
          /\ calls[c2].pc = "pull"
          /\ blockMap' = CacheSet(blockMap, calls[c].hash, BlockData(calls[c2].hash))
          /\ calls' = [calls EXCEPT ![c].pc = "idle",
                                    ![c].ret = << BlockData(calls[c2].hash), TRUE >>]
    /\ UNCHANGED << libVars, order, pendingChan, queued, progress, ctxDone, serve, mounted >>
    /\ UNCHANGED << indexVars, workerVars, callerVars, readerVars >>
    /\ UNCHANGED << front, shadow, cacheRet, inoVars, scanObs >>

\* pullBlockBase returns: an error, and the call returns (nil, false); or the
\* block's bytes, which are cached, and the call returns (data, true).
FetchPull(c) ==
    /\ calls[c].pc = "pull"
    /\ \/ /\ calls' = [calls EXCEPT ![c].pc = "idle", ![c].ret = << NoData, FALSE >>]
          /\ UNCHANGED blockMap
       \/ /\ blockMap' = CacheSet(blockMap, calls[c].hash, BlockData(calls[c].hash))
          /\ calls' = [calls EXCEPT ![c].pc = "idle",
                                    ![c].ret = << BlockData(calls[c].hash), TRUE >>]
    /\ UNCHANGED << libVars, order, pendingChan, queued, progress, ctxDone, serve, mounted >>
    /\ UNCHANGED << indexVars, workerVars, callerVars, readerVars >>
    /\ UNCHANGED << front, shadow, cacheRet, inoVars, scanObs >>

\* GetHashBlockData that fetches the block on a miss.
GetHashBlockDataCall_fetch(c, hash, buflen) ==
    /\ CacheExists
    /\ calls[c].pc = "idle"
    /\ calls' = [calls EXCEPT ![c] =
                  IF ~CacheHas(blockMap, hash)
                  THEN [op |-> "hashdata", pc |-> "pull", hash |-> hash,
                        arg |-> NoArg, idx |-> 0, buf |-> NoData, buflen |-> buflen, hit |-> FALSE, pulls |-> 1, ret |-> NoReturn]
                  ELSE [op |-> "hashdata", pc |-> "idle", hash |-> hash,
                        arg |-> NoArg, idx |-> 0, buf |-> NoData, buflen |-> buflen, hit |-> TRUE, pulls |-> 0,
                        ret |-> << Min(buflen, Len(CacheGet(blockMap, hash))), "nil",
                                   SubSeq(CacheGet(blockMap, hash), 1,
                                          Min(buflen, Len(CacheGet(blockMap, hash)))) >>]]
    /\ UNCHANGED << libVars, folderVars, indexVars, workerVars, callerVars, readerVars >>
    /\ UNCHANGED << front, shadow, cacheRet, inoVars, scanObs >>

\* GetHashBlockData(hash, response_data) with len(response_data) = buflen: it
\* returns (n, err), and the first n bytes of response_data are the copy.
GetHashBlockDataCall(c, hash, buflen) ==
    /\ CacheExists
    /\ calls[c].pc = "idle"
    /\ calls' = [calls EXCEPT ![c] =
                  IF ~CacheHas(blockMap, hash)
                  THEN [op |-> "hashdata", pc |-> "idle", hash |-> hash,
                        arg |-> NoArg, idx |-> 0, buf |-> NoData, buflen |-> buflen, hit |-> FALSE, pulls |-> 0,
                        ret |-> << 0, "ErrNoSuchFile", << >> >>]
                  ELSE [op |-> "hashdata", pc |-> "idle", hash |-> hash,
                        arg |-> NoArg, idx |-> 0, buf |-> NoData, buflen |-> buflen, hit |-> TRUE, pulls |-> 0,
                        ret |-> << Min(buflen, Len(CacheGet(blockMap, hash))), "nil",
                                   SubSeq(CacheGet(blockMap, hash), 1,
                                          Min(buflen, Len(CacheGet(blockMap, hash)))) >>]]
    /\ UNCHANGED << libVars, folderVars, indexVars, workerVars, callerVars, readerVars >>
    /\ UNCHANGED << front, shadow, cacheRet, inoVars, scanObs >>

FetchNext ==
    \/ \E c \in Callers, hash \in Hashes : FetchCall(c, hash)
    \/ \E c \in Callers : FetchPull(c)
    \/ \E c \in Callers, hash \in Hashes, buflen \in 0..MaxBuf :
          GetHashBlockDataCall(c, hash, buflen)
    \/ \E pathKind \in PathKinds, mountOk \in BOOLEAN : ServeStart(pathKind, mountOk)
    \/ Cancel
    \/ ServeReturn

FetchSpec == Init /\ [][FetchNext]_vars

\* C14: a GetBlockDataFromCacheOrDownload call that missed the cache and
\* whose pull succeeded has issued exactly one pullBlockBase call and has
\* returned (d, true), d being the block's bytes, and Get on the cache
\* returns (d, true) from then on.
C14_MissThenPull ==
    \A c \in Callers :
        (/\ calls[c].op = "fetch" /\ calls[c].pc = "idle"
         /\ ~calls[c].hit /\ calls[c].ret[2] = TRUE)
        => /\ calls[c].pulls = 1
           /\ calls[c].ret = << BlockData(calls[c].hash), TRUE >>
           /\ GetResult(blockMap, calls[c].hash) = calls[c].ret

\* Both threads missed the same hash, pulled it and returned its data.
C14_Witness ==
    \A c \in Callers :
        /\ calls[c].op = "fetch" /\ calls[c].pc = "idle" /\ calls[c].hash = HashB
        /\ ~calls[c].hit /\ calls[c].pulls = 1
        /\ calls[c].ret = << BlockData(HashB), TRUE >>

\* C15: the step in which pullBlockBase returns an error ends the call with
\* (nil, false) after that one pull and writes nothing to the cache.
C15_FailStep ==
    \A c \in Callers :
        (calls[c].pc = "pull" /\ calls'[c].pc = "idle" /\ calls'[c].ret[2] = FALSE)
        => /\ calls'[c].ret = << NoData, FALSE >>
           /\ calls'[c].pulls = 1
           /\ blockMap' = blockMap

\* C15: a call that has returned false missed the cache, pulled once and
\* returned (nil, false).
C15_Failed ==
    \A c \in Callers :
        (calls[c].op = "fetch" /\ calls[c].pc = "idle" /\ calls[c].ret[2] = FALSE)
        => (~calls[c].hit /\ calls[c].pulls = 1 /\ calls[c].ret = << NoData, FALSE >>)

\* C15: when pullBlockBase returns an error the call returns (nil, false),
\* writes nothing to the cache and does not pull again.
C15_PullError == []C15_Failed /\ [][C15_FailStep]_vars

\* A call has returned (nil, false) and the hash is not in the cache.
C15_Witness ==
    \E c \in Callers :
        /\ calls[c].op = "fetch" /\ calls[c].pc = "idle"
        /\ calls[c].ret = << NoData, FALSE >>
        /\ ~CacheHas(blockMap, calls[c].hash)

\* C16: a GetHashBlockData call changes neither the cache nor the job queue
\* and issues no pull; on a hash the cache lacks it returns (0, no-such-file),
\* on a cached hash the count min(len(buf), len(data)), that many bytes of
\* the data and no error.
C16_CallStep ==
    \A c \in Callers :
        (calls'[c] # calls[c] /\ calls'[c].op = "hashdata")
        => /\ blockMap' = blockMap /\ queued' = queued /\ progress' = progress
           /\ calls'[c].pc = "idle" /\ calls'[c].pulls = 0
           /\ LET h == calls'[c].hash
                  n == calls'[c].buflen
                  found == GetResult(blockMap, h)
              IN IF found[2]
                 THEN /\ calls'[c].ret[1] = (IF n < Len(found[1]) THEN n ELSE Len(found[1]))
                      /\ calls'[c].ret[2] = "nil"
                      /\ calls'[c].ret[3] = SubSeq(found[1], 1, calls'[c].ret[1])
                 ELSE calls'[c].ret = << 0, "ErrNoSuchFile", << >> >>

\* C16: GetHashBlockData looks the hash up and never fetches.
C16_LookupOnly == [][C16_CallStep]_vars

\* One thread got no-such-file for a hash the cache lacks, the other a
\* truncated copy of a cached block.
C16_Witness ==
    /\ calls["c1"].op = "hashdata" /\ calls["c1"].ret = << 0, "ErrNoSuchFile", << >> >>
    /\ ~CacheHas(blockMap, calls["c1"].hash)
    /\ calls["c2"].op = "hashdata" /\ calls["c2"].hash = HashB /\ calls["c2"].buflen = 1
    /\ calls["c2"].ret = << 1, "nil", << 171 >> >>

\* C17: when Serve has failed at startup, for a virtual descriptor without
\* ":mount_at:" or for a failed mount, no worker has been started and no
\* mount handle is recorded.
C17_FailedStartup ==
    serve \in {"failedDescriptor", "failedMount"} => (workers = EmptyBag /\ ~mounted)

\* Serve failed to mount with two names waiting in the queue and a token
\* buffered.
C17_Witness ==
    /\ serve = "failedMount"
    /\ Len(queued) = 2 /\ pendingChan = 1 /\ cpc = "idle"

\* C18: Serve has returned only with the mount closed, after a cancellation.
C18_Returned == serve = "returned" => (ctxDone /\ ~mounted)

\* C18: the step in which Serve returns is the one that closes the mount, it
\* follows the cancellation, and it leaves the block cache as it is.
C18_ReturnStep ==
    /\ (serve # "returned" /\ serve' = "returned")
       => (ctxDone /\ mounted /\ ~mounted' /\ blockMap' = blockMap)
    /\ (mounted /\ ~mounted') => serve' = "returned"

\* C18: on cancellation Serve unmounts and only then returns; the block cache
\* is not closed before.
C18_UnmountThenReturn == []C18_Returned /\ [][C18_ReturnStep]_vars

\* Serve has returned after a cancellation, with a block in the cache.
C18_Witness ==
    /\ serve = "returned" /\ ~mounted
    /\ CacheHas(blockMap, HashB)

\* The number of workers with a pullBlockBase call in flight.
PullingWorkers ==
    BagCardinality([w \in {x \in WorkerSet : x.pc = "pull"} |-> workers[w]])

\* C19: once the context is cancelled no worker pops a job, starts a pull or
\* performs an updateOne.
C19_NoWorkAfterCancel ==
    [][ctxDone => /\ Len(queued') >= Len(queued)
                  /\ PullingWorkers' <= PullingWorkers
                  /\ (\A w \in WorkerSet : w.pc = "update" => workers' = workers)]_vars

\* How often the name is in the in-progress list, and how many workers hold it.
InProgressCount(n) == Cardinality({i \in DOMAIN progress : progress[i] = n})
HoldersCount(n) == BagCardinality([w \in {x \in WorkerSet : x.job = n} |-> workers[w]])

\* C20: the in-progress list holds exactly the jobs the workers hold, and a
\* worker that waits or is about to pop holds none: the job it popped before
\* has been marked done.
C20_DoneBeforeNextPop ==
    /\ \A n \in Names : InProgressCount(n) = HoldersCount(n)
    /\ \A w \in WorkerSet : w.pc \in {"wait", "pop", "returned"} => w.job = NoName

\* C20: Done takes one name out of the in-progress list, and the name is then
\* neither pending nor in progress.
C20_DoneStep ==
    Len(progress') < Len(progress)
    => /\ Len(progress') = Len(progress) - 1
       /\ \E n \in SeqToSet(progress) :
             n \notin SeqToSet(progress') /\ n \notin QueuedNames(queued')

\* C20: every popped job is marked done once, on every exit path, before the
\* worker pops again.
C20_DoneOnEveryPath == []C20_DoneBeforeNextPop /\ [][C20_DoneStep]_vars

\* Two accepted jobs have been dropped: nothing was adopted, and both lists
\* are empty with every worker back in its wait.
C20_Witness ==
    /\ serve = "running" /\ accepted = 2 /\ cpc = "idle"
    /\ localHave = {} /\ queued = << >> /\ progress = << >>
    /\ \A w \in WorkerSet : w.pc = "wait"

(***************************************************************************)
(* The service with an observer attached: every snapshot the index hands   *)
(* out is counted until it is released, and what Scan returns is recorded. *)
(***************************************************************************)
ScanInit == order = "alphabetic" /\ observed = TRUE /\ InitFolder /\ NoRelay

\* The scanner, the control plane, the workers and Serve; the FUSE reader,
\* which shares nothing with Scan but the block cache, is left out.
ScanNext ==
    \/ \E name \in RequestableNames : RequestCall(name)
    \/ RequestSort
    \/ RequestSend
    \/ ScanCall
    \/ ScanVisit
    \/ \E w \in BagToSet(workers) : WorkerWait(w)
    \/ \E w \in BagToSet(workers) : WorkerPop(w)
    \/ \E w \in BagToSet(workers) : WorkerBlock(w)
    \/ \E w \in BagToSet(workers) : WorkerPull(w)
    \/ \E w \in BagToSet(workers) : WorkerUpdateOne(w)
    \/ \E w \in BagToSet(workers) : WorkerSequence(w)
    \/ \E w \in BagToSet(workers) : WorkerLog(w)
    \/ \E w \in BagToSet(workers) : WorkerDone(w)
    \/ \E pathKind \in PathKinds, mountOk \in BOOLEAN : ServeStart(pathKind, mountOk)
    \/ Cancel
    \/ ServeReturn

ScanSpec == ScanInit /\ [][ScanNext]_vars

\* No Scan is running and no worker is processing a job.
Quiescent ==
    /\ cop # "scan"
    /\ progress = <<>>
    /\ \A w \in WorkerSet : w.job = NoName

\* C21: every snapshot acquired by Scan or by a worker is released before
\* the operation finishes, so that whenever no Scan is running and no job is
\* being processed no snapshot is open.
C21_SnapshotsReleased == Quiescent => snapsOpen = 0

\* The Scan thread takes a step: the scanner's position or its list of
\* entries to visit changes while it is in Scan, or Scan returns an error.
ScanThreadStep ==
    /\ cop = "scan" \/ cop' = "scan" \/ scanRet' # scanRet
    /\ callerVars' # callerVars \/ scanRet' # scanRet

\* C22 (start): Scan visits the entries the local device needs, which are
\* the names of the global index the local index does not hold.
C22_StartStep ==
    (cpc = "idle" /\ cpc' = "scan") =>
        /\ SeqToSet(ctodo') = GlobalNames \ localHave
        /\ Len(ctodo') = Cardinality(GlobalNames \ localHave)

\* C22 (visit): a needed directory is adopted by updateOne and nothing is
\* enqueued for it; a needed non-directory is handed to
\* RequestBackgroundDownload with its name, size and modification time.
C22_VisitStep ==
    (cpc = "scan" /\ ctodo # <<>> /\ ctodo' # ctodo) =>
        LET n == Head(ctodo) IN
        /\ ctodo' = Tail(ctodo)
        /\ GlobalIndex[n].isDir =>
              /\ n \in localHave'
              /\ queued' = queued
              /\ cpc' = "scan"
        /\ ~GlobalIndex[n].isDir =>
              /\ cpc' = "pushed"
              /\ cname' = n
              /\ localHave' = localHave
              /\ IF IsNew(queued, progress, n)
                 THEN queued' = Append(queued, [name |-> n,
                                                size |-> GlobalIndex[n].size,
                                                modified |-> GlobalIndex[n].modTime])
                 ELSE queued' = queued

\* C22 (return): Scan returns nil only after the last needed entry, and by
\* then the local index holds every directory of the global index.
C22_ReturnStep ==
    (scanRet = "running" /\ scanRet' = "nil") =>
        /\ ctodo = <<>>
        /\ \A n \in GlobalNames : GlobalIndex[n].isDir => n \in localHave'

\* C22 (error): a Scan whose snapshot cannot be acquired returns the error
\* and enqueues nothing, adopts nothing and wakes no worker.
C22_ErrorStep ==
    (scanRet' = "err" /\ scanRet # "err") =>
        /\ queued' = queued
        /\ accepted' = accepted
        /\ pendingChan' = pendingChan
        /\ localHave' = localHave
        /\ cpc' = "idle"

\* C22: Scan visits every needed entry, adopting directories with updateOne
\* and handing non-directories to RequestBackgroundDownload with their name,
\* size and modification time; no step of Scan pulls a block or writes to
\* the block cache; a Scan whose snapshot fails returns the error and
\* enqueues nothing.
C22_ScanSchedules ==
    [][/\ C22_StartStep
       /\ C22_VisitStep
       /\ C22_ReturnStep
       /\ C22_ErrorStep
       /\ ScanThreadStep =>
             /\ blockMap' = blockMap
             /\ workers' = workers
             /\ rpc' = rpc
             /\ calls' = calls]_vars

\* Scan has visited its last entry: it has adopted the directory "d" and
\* both files it found needed are pending with the global index's size and
\* modification time.
C22_Witness ==
    /\ cop = "scan"
    /\ cpc = "scan"
    /\ ctodo = <<>>
    /\ accepted = 2
    /\ "d" \in localHave
    /\ queued = << [name |-> "a", size |-> 4, modified |-> 1],
                   [name |-> "b", size |-> 2, modified |-> 2] >>

\* Within one job run the k-th call of GetBlockDataFromCacheOrDownload asks
\* for the k-th block of the file: no block is asked for twice.
C23_OneRequestPerBlock ==
    \A w \in WorkerSet :
        w.job \in GlobalNames =>
            /\ w.nReq <= Len(JobBlocks(w))
            /\ w.pc = "block" => w.nReq = w.bidx - 1
            /\ w.pc = "pull" => w.nReq = w.bidx
            /\ w.jobFailed /\ w.pc = "done" => w.nReq = Len(JobBlocks(w))

\* A name becomes pending only by an accepted RequestBackgroundDownload of
\* the scanner or the control plane, never by a step of a worker; and a
\* request for a name that is neither pending nor in progress is accepted.
C23_EnqueueStep ==
    /\ ~(QueuedNames(queued') \subseteq QueuedNames(queued)) =>
          /\ cpc \in {"idle", "scan"}
          /\ cpc' = "pushed"
          /\ wasNew' = "new"
          /\ workers' = workers
          /\ QueuedNames(queued') = QueuedNames(queued) \cup {cname'}
    /\ (cpc \in {"idle", "scan"} /\ cpc' = "pushed"
          /\ cname' \notin QueuedNames(queued) \cup SeqToSet(progress)) =>
          /\ wasNew' = "new"
          /\ cname' \in QueuedNames(queued')

\* C23: a failed block fetch is never retried by the worker: within one job
\* run each block is requested at most once; a failed job re-enters the
\* queue only when a later Scan or control-plane request calls
\* RequestBackgroundDownload for it, which is accepted because the name is
\* no longer in the queue.
C23_NoRetry == [][C23_OneRequestPerBlock' /\ C23_EnqueueStep]_vars

\* The job for "a" has failed on its second block and is finished; a later
\* request for "a" has just been accepted.
C23_Witness ==
    /\ CacheHas(blockMap, HashA)
    /\ ~CacheHas(blockMap, HashB)
    /\ localHave \cap {"a", "b"} = {}
    /\ progress = <<>>
    /\ \A w \in WorkerSet : w.job = NoName
    /\ cpc = "pushed"
    /\ cname = "a"
    /\ wasNew = "new"
    /\ accepted = 2
    /\ QueuedNames(queued) = {"a"}

\* The hashes the block cache holds an entry for.
CachedHashes(m) == {h \in CacheHashes : CacheHas(m, h)}

\* C24: the set of hashes present in the block cache never shrinks: no step
\* of a worker, of a reading thread, of Scan, of Serve or of the shutdown
\* removes an entry.
C24_CacheGrowsOnly ==
    [][/\ DOMAIN blockMap \subseteq DOMAIN blockMap'
       /\ CachedHashes(blockMap) \subseteq CachedHashes(blockMap')]_vars

\* Both blocks were cached while the service ran, and they are still there
\* after Serve has unmounted and returned.
C24_Witness ==
    /\ serve = "returned"
    /\ CachedHashes(blockMap) = {HashA, HashB}
    /\ localHave \cap {"a", "b"} # {}

Paths == {"/", "/a", "/d"}

\* inodeFor entered without taking the mutex.
InodeForLock_noMutex(c, path) ==
    /\ mounted
    /\ calls[c].pc = "idle"
    /\ calls' = [calls EXCEPT ![c] =
                  [IdleCall EXCEPT !.op = "inodeFor", !.pc = "lookup", !.arg = path]]
    /\ UNCHANGED << libVars, folderVars, indexVars, workerVars, callerVars, readerVars >>
    /\ UNCHANGED << front, shadow, cacheRet, inoVars, scanObs >>

\* inodeFor(path) is entered: ino_mu.Lock()
InodeForLock(c, path) ==
    /\ mounted
    /\ calls[c].pc = "idle"
    /\ ino_mu = NoName
    /\ ino_mu' = c
    /\ calls' = [calls EXCEPT ![c] =
                  [IdleCall EXCEPT !.op = "inodeFor", !.pc = "lookup", !.arg = path]]
    /\ UNCHANGED << libVars, folderVars, indexVars, workerVars, callerVars, readerVars >>
    /\ UNCHANGED << front, shadow, cacheRet, ino_mapping, next_ino_nr, scanObs >>

\* ino, ok := ino_mapping[path]
InodeForLookup(c) ==
    /\ calls[c].pc = "lookup"
    /\ calls' = [calls EXCEPT ![c] =
                  IF calls[c].arg \in DOMAIN ino_mapping
                  THEN [calls[c] EXCEPT !.pc = "unlock", !.hit = TRUE,
                                        !.ret = << ino_mapping[calls[c].arg] >>]
                  ELSE [calls[c] EXCEPT !.pc = "alloc"]]
    /\ UNCHANGED << libVars, folderVars, indexVars, workerVars, callerVars, readerVars >>
    /\ UNCHANGED << front, shadow, cacheRet, inoVars, scanObs >>

\* ino = next_ino_nr; next_ino_nr++; ino_mapping[path] = ino
InodeForAlloc(c) ==
    /\ calls[c].pc = "alloc"
    /\ ino_mapping' = [p \in DOMAIN ino_mapping \cup {calls[c].arg} |->
                          IF p = calls[c].arg THEN next_ino_nr ELSE ino_mapping[p]]
    /\ next_ino_nr' = next_ino_nr + 1
    /\ calls' = [calls EXCEPT ![c].pc = "unlock", ![c].ret = << next_ino_nr >>]
    /\ UNCHANGED << libVars, folderVars, indexVars, workerVars, callerVars, readerVars >>
    /\ UNCHANGED << front, shadow, cacheRet, ino_mu, scanObs >>

\* ino_mu.Unlock(); return ino
InodeForUnlock(c) ==
    /\ calls[c].pc = "unlock"
    /\ ino_mu' = (IF ino_mu = c THEN NoName ELSE ino_mu)
    /\ calls' = [calls EXCEPT ![c].pc = "idle"]
    /\ UNCHANGED << libVars, folderVars, indexVars, workerVars, callerVars, readerVars >>
    /\ UNCHANGED << front, shadow, cacheRet, ino_mapping, next_ino_nr, scanObs >>

InodeNext ==
    \/ \E c \in Callers, path \in Paths : InodeForLock(c, path)
    \/ \E c \in Callers : InodeForLookup(c)
    \/ \E c \in Callers : InodeForAlloc(c)
    \/ \E c \in Callers : InodeForUnlock(c)
    \/ \E pathKind \in PathKinds, mountOk \in BOOLEAN : ServeStart(pathKind, mountOk)
    \/ Cancel
    \/ ServeReturn

InodeSpec == Init /\ [][InodeNext]_vars

\* The inode table is one-to-one, holds the numbers 1 .. next_ino_nr - 1 and
\* never 0, and every inode a call has returned is the one the table holds
\* for the call's path.
C26_TableInv ==
    /\ \A p, q \in DOMAIN ino_mapping : ino_mapping[p] = ino_mapping[q] => p = q
    /\ {ino_mapping[p] : p \in DOMAIN ino_mapping} = 1 .. (next_ino_nr - 1)
    /\ \A c \in Callers :
          (calls[c].op = "inodeFor" /\ calls[c].pc \in {"unlock", "idle"}) =>
              /\ calls[c].ret[1] >= 1
              /\ calls[c].arg \in DOMAIN ino_mapping
              /\ calls[c].ret[1] = ino_mapping[calls[c].arg]

\* A path keeps the inode it has, and a new path gets the next number.
C26_AllocStep ==
    /\ \A p \in DOMAIN ino_mapping :
          p \in DOMAIN ino_mapping' /\ ino_mapping'[p] = ino_mapping[p]
    /\ \A p \in DOMAIN ino_mapping' \ DOMAIN ino_mapping :
          ino_mapping'[p] = next_ino_nr /\ next_ino_nr' = next_ino_nr + 1
    /\ next_ino_nr' >= next_ino_nr

\* C26: inode stability: all calls of inodeFor for one path, concurrent ones
\* included, return the same inode; distinct paths get distinct inodes;
\* inodes are allocated in strictly increasing order starting at 1, and
\* inode 0 is never returned.
C26_InodeStable == [][C26_TableInv' /\ C26_AllocStep]_vars

\* Both threads have asked for the same path, one after it had allocated
\* inodes for two others, and both were answered with inode 2.
C26_Witness ==
    /\ \A c \in Callers :
          /\ calls[c].op = "inodeFor" /\ calls[c].pc = "idle"
          /\ calls[c].arg = "/a" /\ calls[c].ret = << 2 >>
    /\ ~calls["c1"].hit
    /\ calls["c2"].hit
    /\ next_ino_nr = 4

(***************************************************************************)
(* The FUSE adapter's read(handle, offset, length).  The handle is bound   *)
(* to a file of the index; the read asks GetBlockDataFromCacheOrDownload   *)
(* for each block that meets [offset, offset + length), in order, and      *)
(* appends the part of the block inside the range to the caller's buffer.  *)
(* A block that cannot be fetched fails the whole read with an I/O error.  *)
(***************************************************************************)
Max(a, b) == IF a > b THEN a ELSE b

\* BlockInfo.Offset of block i: the blocks are contiguous from offset 0.
RECURSIVE BlockStart(_, _)
BlockStart(blocks, i) ==
    IF i <= 1 THEN 0
    ELSE BlockStart(blocks, i - 1) + Len(BlockData(blocks[i - 1]))

BlockEnd(blocks, i) == BlockStart(blocks, i) + Len(BlockData(blocks[i]))

\* Whether block i meets the range [off, off + len).
Intersects(blocks, i, off, len) ==
    BlockStart(blocks, i) < off + len /\ off < BlockEnd(blocks, i)

\* The part of a block copied with the offset inside the block ignored.
Slice_fromBlockStart(data, start, off, len) ==
    SubSeq(data, 1, Min(off + len, start + Len(data)) - Max(off, start))

\* The part of the block at offset start that lies in [off, off + len).
Slice(data, start, off, len) ==
    SubSeq(data, Max(off, start) - start + 1, Min(off + len, start + Len(data)) - start)

\* The first block at or after i that meets the range, or 0.
FirstBlock(blocks, i, off, len) ==
    IF \E k \in i .. Len(blocks) : Intersects(blocks, k, off, len)
    THEN CHOOSE k \in i .. Len(blocks) :
            /\ Intersects(blocks, k, off, len)
            /\ \A j \in i .. (k - 1) : ~Intersects(blocks, j, off, len)
    ELSE 0

\* The call once the data of block idx is at hand: its part is appended and
\* the read goes on to the next block of the range, or returns the buffer.
ReadAppend(call, data) ==
    LET blocks == GlobalIndex[call.arg[1]].blocks
        off    == call.arg[2]
        len    == call.arg[3]
        buf    == call.buf \o Slice(data, BlockStart(blocks, call.idx), off, len)
        next   == FirstBlock(blocks, call.idx + 1, off, len)
    IN IF next = 0
       THEN [call EXCEPT !.pc = "idle", !.buf = buf, !.ret = << buf, "ok" >>]
       ELSE [call EXCEPT !.pc = "readblock", !.buf = buf, !.idx = next]

\* read(handle, offset, length) is entered on a FUSE thread.
ReadCall(c, name, off, len) ==
    /\ mounted
    /\ calls[c].pc = "idle"
    /\ LET first == FirstBlock(GlobalIndex[name].blocks, 1, off, len)
       IN calls' = [calls EXCEPT ![c] =
                     IF first = 0
                     THEN [IdleCall EXCEPT !.op = "read", !.arg = << name, off, len >>,
                                           !.ret = << NoData, "ok" >>]
                     ELSE [IdleCall EXCEPT !.op = "read", !.arg = << name, off, len >>,
                                           !.pc = "readblock", !.idx = first]]
    /\ UNCHANGED << libVars, folderVars, indexVars, workerVars, callerVars, readerVars >>
    /\ UNCHANGED << front, shadow, cacheRet, inoVars, scanObs >>

\* GetBlockDataFromCacheOrDownload for block idx: the cache lookup.
ReadBlock(c) ==
    /\ calls[c].pc = "readblock"
    /\ LET h == GlobalIndex[calls[c].arg[1]].blocks[calls[c].idx]
       IN calls' = [calls EXCEPT ![c] =
                     IF CacheHas(blockMap, h)
                     THEN ReadAppend(calls[c], CacheGet(blockMap, h))
                     ELSE [calls[c] EXCEPT !.pc = "readpull",
                                           !.pulls = calls[c].pulls + 1]]
    /\ UNCHANGED << libVars, folderVars, indexVars, workerVars, callerVars, readerVars >>
    /\ UNCHANGED << front, shadow, cacheRet, inoVars, scanObs >>

\* pullBlockBase returns for block idx: an error fails the read; the
\* block's bytes are cached and the read goes on.
ReadPull(c) ==
    /\ calls[c].pc = "readpull"
    /\ LET h == GlobalIndex[calls[c].arg[1]].blocks[calls[c].idx]
       IN \/ /\ calls' = [calls EXCEPT ![c].pc = "idle", ![c].ret = << NoData, "EIO" >>]
             /\ UNCHANGED blockMap
          \/ /\ blockMap' = CacheSet(blockMap, h, BlockData(h))
             /\ calls' = [calls EXCEPT ![c] = ReadAppend(calls[c], BlockData(h))]
    /\ UNCHANGED << libVars, order, pendingChan, queued, progress, ctxDone, serve, mounted >>
    /\ UNCHANGED << indexVars, workerVars, callerVars, readerVars >>
    /\ UNCHANGED << front, shadow, cacheRet, inoVars, scanObs >>

\* The files a handle can be open on.
ReadableNames == {n \in GlobalNames : ~GlobalIndex[n].isDir}

\* The thread the reads are made on.
Readers == {"c1"}

ReadNext ==
    \/ \E c \in Readers, name \in ReadableNames, off \in 0 .. MaxOff, len \in 0 .. MaxLen :
          ReadCall(c, name, off, len)
    \/ \E c \in Readers : ReadBlock(c)
    \/ \E c \in Readers : ReadPull(c)
    \/ \E pathKind \in PathKinds, mountOk \in BOOLEAN : ServeStart(pathKind, mountOk)
    \/ Cancel
    \/ ServeReturn

ReadSpec == Init /\ [][ReadNext]_vars

\* The file's bytes: its blocks' data one after the other.
RECURSIVE Concat(_)
Concat(blocks) ==
    IF blocks = <<>> THEN <<>> ELSE BlockData(Head(blocks)) \o Concat(Tail(blocks))

\* Bytes [off, off + len) of a sequence, as far as it reaches.
Range(bytes, off, len) == SubSeq(bytes, off + 1, Min(off + len, Len(bytes)))

\* C27: a read(offset, length) that finds every block it needs in the cache
\* returns exactly the bytes [offset, offset + length) of the concatenation
\* of the file's blocks, for ranges inside one block and across blocks.
C27_ReadReturnsRange ==
    \A c \in Readers :
        (calls[c].op = "read" /\ calls[c].pc = "idle" /\ calls[c].pulls = 0) =>
            calls[c].ret = << Range(Concat(GlobalIndex[calls[c].arg[1]].blocks),
                                    calls[c].arg[2], calls[c].arg[3]), "ok" >>

\* A read of bytes [1, 3) of "a", the last byte of its first block and the
\* first of its second, was served from the cache.
C27_Witness ==
    /\ calls["c1"].op = "read" /\ calls["c1"].pc = "idle"
    /\ calls["c1"].arg = << "a", 1, 2 >>
    /\ calls["c1"].pulls = 0
    /\ calls["c1"].idx = 2
    /\ calls["c1"].ret = << << 11, 171 >>, "ok" >>

(***************************************************************************)
(* HashedBlockMapInMemory shared by two threads.  Get, Set and Delete go   *)
(* straight to the Go map, with no lock around the access, so a call is    *)
(* inside the map from MapEnter to MapLeave and another thread's call can  *)
(* be inside it at the same time.  Go leaves a map access that overlaps a  *)
(* write of the same map undefined: the call may have its effect, the      *)
(* write may be lost, or the runtime may stop the program.                 *)
(***************************************************************************)
MapOps == {"get", "set", "delete"}
MapWrites == {"set", "delete"}

\* The call of thread c is inside the map while a call of another thread
\* is, and one of the two writes.
Overlaps(cs, c) ==
    /\ cs[c].pc = "inmap"
    /\ \E c2 \in Callers \ {c} :
          /\ cs[c2].pc = "inmap"
          /\ cs[c].op \in MapWrites \/ cs[c2].op \in MapWrites

\* hm.Get(hash), hm.Set(hash, data) or hm.Delete(hash) reaches the map.
MapEnter(c, op, hash) ==
    /\ calls[c].pc = "idle"
    /\ LET entered == [calls EXCEPT ![c] =
                          [IdleCall EXCEPT !.op = op, !.pc = "inmap", !.hash = hash]]
       IN calls' = [c2 \in Callers |->
                       IF Overlaps(entered, c2)
                       THEN [entered[c2] EXCEPT !.hit = TRUE]
                       ELSE entered[c2]]
    /\ UNCHANGED << libVars, folderVars, indexVars, workerVars, callerVars, readerVars >>
    /\ UNCHANGED << front, shadow, cacheRet, inoVars, scanObs >>

\* What the call does to the map and returns when no write overlapped it.
MapEffect(c) ==
    LET h == calls[c].hash
    IN CASE calls[c].op = "get" ->
              /\ UNCHANGED blockMap
              /\ calls' = [calls EXCEPT ![c].pc = "idle",
                                        ![c].ret = GetResult(blockMap, h)]
         [] calls[c].op = "set" ->
              /\ blockMap' = CacheSet(blockMap, h, BlockData(h))
              /\ calls' = [calls EXCEPT ![c].pc = "idle", ![c].ret = << "done" >>]
         [] calls[c].op = "delete" ->
              /\ blockMap' = CacheDelete(blockMap, h)
              /\ calls' = [calls EXCEPT ![c].pc = "idle", ![c].ret = << "done" >>]

\* The call leaves the map; calls[c].hit tells that a write overlapped it.
MapLeave(c) ==
    /\ calls[c].pc = "inmap"
    /\ \/ MapEffect(c)
       \/ /\ calls[c].hit
          /\ UNCHANGED blockMap
          /\ \E result \in {"lost", "fatal"} :
                calls' = [calls EXCEPT ![c].pc = "idle", ![c].ret = << result >>]
    /\ UNCHANGED << libVars, order, pendingChan, queued, progress, ctxDone, serve, mounted >>
    /\ UNCHANGED << indexVars, workerVars, callerVars, readerVars >>
    /\ UNCHANGED << front, shadow, cacheRet, inoVars, scanObs >>

RaceNext ==
    \/ \E c \in Callers, op \in MapOps, hash \in Hashes : MapEnter(c, op, hash)
    \/ \E c \in Callers : MapLeave(c)

RaceSpec == Init /\ [][RaceNext]_vars

\* C28: the in-memory block store is safe to share: Get, Set and Delete
\* calls of different threads are mutually atomic, so that no call is inside
\* the map while a writing call of another thread is.
C28_MutuallyAtomic == \A c \in Callers : ~Overlaps(calls, c)

\* The step in which a thread calls GetBlockDataFromCacheOrDownload for a
\* hash the cache holds: the call returns the cached bytes with true at
\* once, with no pull and with the cache as it was.
C29_HitStep ==
    \A c \in Callers :
        (/\ calls[c].pc = "idle"
         /\ calls'[c] # calls[c]
         /\ calls'[c].op = "fetch"
         /\ CacheHas(blockMap, calls'[c].hash))
        => /\ calls'[c].pc = "idle"
           /\ calls'[c].ret = << CacheGet(blockMap, calls'[c].hash), TRUE >>
           /\ calls'[c].hit
           /\ calls'[c].pulls = 0
           /\ blockMap' = blockMap

\* C29: on a cache hit GetBlockDataFromCacheOrDownload returns the cached
\* bytes with true, does not invoke pullBlockBase and does not write to the
\* cache.
C29_HitIsReadOnly ==
    [][/\ C29_HitStep
       /\ \A c \in Callers :
             (calls'[c].op = "fetch" /\ calls'[c].hit) =>
                 calls'[c].pulls = 0 /\ calls'[c].pc = "idle"]_vars

\* One thread pulled and cached block A; the other then asked for it and
\* was served from the cache.
C29_Witness ==
    /\ calls["c1"].op = "fetch" /\ calls["c1"].hash = HashA
    /\ ~calls["c1"].hit /\ calls["c1"].pulls = 1 /\ calls["c1"].pc = "idle"
    /\ calls["c2"].op = "fetch" /\ calls["c2"].hash = HashA
    /\ calls["c2"].hit /\ calls["c2"].pulls = 0 /\ calls["c2"].pc = "idle"
    /\ calls["c2"].ret = << BlockData(HashA), TRUE >>
    /\ DOMAIN blockMap = {hashToStringMapKey(HashA)}

(***************************************************************************)
(* The shutdown, under fair scheduling: the service with the context's     *)
(* cancellation and Serve's return, every worker goroutine and the         *)
(* requesting thread getting to run, and every pull returning.  The        *)
(* requests are finitely many, so from some point on none is enqueued.     *)
(***************************************************************************)
ShutdownSpec == Init /\ [][ScanNext]_vars /\ LiveFairness

\* C30: after the context is cancelled, with no further request enqueued
\* and every pull in flight returning, each background worker eventually
\* returns from its loop.
C30_WorkersReturn ==
    ctxDone ~> (\A w \in WorkerSet : w.pc = "returned")

\* The context is cancelled and all four workers have returned, after both
\* accepted jobs were processed.
C30_Witness ==
    /\ ctxDone
    /\ Cardinality(WorkerSet) = 1
    /\ BagCardinality(workers) = backgroundDownloadTasks
    /\ \A w \in WorkerSet : w.pc = "returned"
    /\ accepted = 2
    /\ queued = << >>
    /\ {"a", "b"} \subseteq localHave

\* C35 as stated: from BringToFront(X) on a pending X until X is popped, X
\* is the head of the pending list, whatever is enqueued in between.
C35_StaysNext ==
    front # NoName => (queued # << >> /\ Head(queued).name = front)

\* The sort of an accepted request: the whole pending list is put in the
\* order of the folder's policy, the name brought to the front included, so
\* that name stays the head only when no pending entry sorts before it.
C35_SortStep ==
    (cpc = "pushed" /\ wasNew = "new" /\ cpc' = "send") =>
        /\ IsSorted(order, queued')
        /\ (front # NoName /\ front \in QueuedNames(queued)) =>
              LET x == CHOOSE e \in SeqToSet(queued) : e.name = front
              IN (Head(queued').name = front) <=>
                    (\A e \in SeqToSet(queued) : ~Before(order, e, x))

\* The push of a request appends, and so leaves the head where it is.
C35_PushStep ==
    (front # NoName /\ queued # << >> /\ Head(queued).name = front
        /\ cpc = "idle" /\ cpc' = "pushed")
    => (front' = front /\ Head(queued').name = front)

\* C35: after BringToFront(X) on a pending X, X stays the next job to be
\* popped while requests only push; the sort that follows each accepted
\* push puts X back in its place under the order policy, so X is then the
\* next job only if no pending name sorts before it.
C35_FrontUntilSort == [][C35_SortStep /\ C35_PushStep]_vars

\* "b" was brought to the front; a request for "a" was then accepted and
\* its sort has put "a" ahead of "b".
C35_Witness ==
    /\ front = "b"
    /\ cpc = "send"
    /\ cname = "a"
    /\ Len(queued) >= 2
    /\ queued[1].name = "a"
    /\ queued[2].name = "b"

\* C36: a worker requests every block of the job's file in block order,
\* also after one of them has failed: a failed job reaches its end with one
\* request made per block, and every block whose fetch succeeded, those
\* after the failed one included, is in the cache.
C36_AllBlocksRequested ==
    \A w \in WorkerSet :
        w.job \in GlobalNames =>
            /\ \A i \in w.okBlocks : CacheHas(blockMap, JobBlocks(w)[i])
            /\ w.pc \in {"block", "pull"} =>
                  /\ w.okBlocks \subseteq 1 .. (w.bidx - 1)
                  /\ w.jobFailed <=> w.okBlocks # 1 .. (w.bidx - 1)
            /\ (w.pc = "done" /\ w.jobFailed) =>
                  /\ w.nReq = Len(JobBlocks(w))
                  /\ w.okBlocks # 1 .. Len(JobBlocks(w))

\* The job for "a" has failed on its first block, went on to fetch its
\* second block, and ends with that block in the cache.
C36_Witness ==
    \E w \in WorkerSet :
        /\ w.job = "a" /\ w.pc = "done" /\ w.jobFailed
        /\ w.okBlocks = {2}
        /\ w.nReq = 2
        /\ CacheHas(blockMap, HashB)
        /\ ~CacheHas(blockMap, HashA)

(***************************************************************************)
(* lib/model/devicedownloadstate.go.  deviceFolderDownloadState holds, per *)
(* file name, the version and the block indexes a remote device has told   *)
(* us about; its methods hold p.mut for their whole body and so are one    *)
(* step each.  deviceDownloadState maps folders to such states under       *)
(* t.mut; its methods take and release t.mut in pieces, which are the      *)
(* steps below.                                                            *)
(***************************************************************************)
DlFolderNames == {"F", "G"}
DlFileNames == {"f"}
DlVersions == {1, 2}
DlIndexes == {0, 1}

\* The most read locks of t.mut held at once.
MaxReaders == 1

\* The longest blockIndexes list explored.
MaxIndexes == 2

\* protocol.FileDownloadProgressUpdate
AppendUpdate(name, version, blockIndexes) ==
    [type |-> "append", name |-> name, version |-> version, blockIndexes |-> blockIndexes]
ForgetUpdate(name, version) ==
    [type |-> "forget", name |-> name, version |-> version, blockIndexes |-> << >>]

\* The map m with key k set to v, and with key k deleted.
MapPut(m, k, v) == [x \in DOMAIN m \cup {k} |-> IF x = k THEN v ELSE m[x]]
MapDel(m, k) == [x \in DOMAIN m \ {k} |-> m[x]]

\* One update that appends to the stored indexes whatever the version.
FolderUpdateOne_keepIndexes(files, update) ==
    IF update.type = "forget" /\ update.name \in DOMAIN files
                              /\ files[update.name].version = update.version
    THEN MapDel(files, update.name)
    ELSE IF update.type = "append"
    THEN MapPut(files, update.name,
                IF update.name \notin DOMAIN files
                THEN [blockIndexes |-> update.blockIndexes, version |-> update.version]
                ELSE [blockIndexes |-> files[update.name].blockIndexes \o update.blockIndexes,
                      version |-> update.version])
    ELSE files

\* The body of the loop of deviceFolderDownloadState.Update for one update.
FolderUpdateOne(files, update) ==
    IF update.type = "forget" /\ update.name \in DOMAIN files
                              /\ files[update.name].version = update.version
    THEN MapDel(files, update.name)
    ELSE IF update.type = "append"
    THEN MapPut(files, update.name,
                IF update.name \notin DOMAIN files
                THEN [blockIndexes |-> update.blockIndexes, version |-> update.version]
                ELSE IF files[update.name].version # update.version
                THEN [blockIndexes |-> update.blockIndexes, version |-> update.version]
                ELSE [blockIndexes |-> files[update.name].blockIndexes \o update.blockIndexes,
                      version |-> update.version])
    ELSE files

\* deviceFolderDownloadState.Update: the updates of the batch in order.
RECURSIVE FolderUpdate(_, _)
FolderUpdate(files, updates) ==
    IF updates = << >> THEN files
    ELSE FolderUpdate(FolderUpdateOne(files, Head(updates)), Tail(updates))

\* deviceFolderDownloadState.Has
FolderHas(files, file, version, index) ==
    IF file \notin DOMAIN files \/ files[file].version # version
    THEN FALSE
    ELSE \E k \in DOMAIN files[file].blockIndexes : files[file].blockIndexes[k] = index

\* deviceFolderDownloadState.GetBlockCounts
FolderGetBlockCounts(files) == [n \in DOMAIN files |-> Len(files[n].blockIndexes)]

\* The indexes a batch can add to one list, and the longest list stored.
RECURSIVE AppendLen(_)
AppendLen(updates) ==
    IF updates = << >> THEN 0
    ELSE Len(Head(updates).blockIndexes) + AppendLen(Tail(updates))

StoredLens ==
    UNION {{Len(dlFiles[o][n].blockIndexes) : n \in DOMAIN dlFiles[o]} : o \in DOMAIN dlFiles}

LongestStored ==
    IF StoredLens = {} THEN 0 ELSE CHOOSE l \in StoredLens : \A m \in StoredLens : m <= l

\* The indexes the Update calls in flight can still add.
RECURSIVE PendingLen(_)
PendingLen(threads) ==
    IF threads = {} THEN 0
    ELSE LET t == CHOOSE x \in threads : TRUE
         IN (IF dlCalls[t].op = "update" /\ dlCalls[t].pc # "idle"
             THEN AppendLen(dlCalls[t].updates) ELSE 0) + PendingLen(threads \ {t})

\* deviceDownloadState.Update is entered: RLock, f, ok := t.folders[folder],
\* RUnlock.  The read lock is to be had while no writer holds t.mut, and the
\* writers' steps are atomic.
DlUpdateCall(t, folder, updates) ==
    /\ dlCalls[t].pc = "idle"
    /\ LongestStored + PendingLen(DlThreads) + AppendLen(updates) <= MaxIndexes
    /\ dlCalls' = [dlCalls EXCEPT ![t] =
                     [DlIdle EXCEPT !.op = "update", !.folder = folder, !.updates = updates,
                                    !.ok = folder \in DOMAIN dlFolders,
                                    !.f = IF folder \in DOMAIN dlFolders
                                          THEN dlFolders[folder] ELSE NoName,
                                    !.pc = IF folder \in DOMAIN dlFolders
                                           THEN "fupdate" ELSE "store"]]
    /\ UNCHANGED << dlFolders, dlFiles, dlReaders >>
    /\ UNCHANGED << coreVars, watchVars, relayVars, upgradeVars, urVars >>

\* if !ok: a new deviceFolderDownloadState is made and, under the write
\* lock, stored in t.folders.  Lock waits until no read lock is held.
DlUpdateStore(t) ==
    /\ dlCalls[t].pc = "store"
    /\ dlReaders = 0
    /\ dlFiles' = MapPut(dlFiles, << dlCalls[t].folder, t >>, << >>)
    /\ dlFolders' = MapPut(dlFolders, dlCalls[t].folder, << dlCalls[t].folder, t >>)
    /\ dlCalls' = [dlCalls EXCEPT ![t].pc = "fupdate", ![t].f = << dlCalls[t].folder, t >>]
    /\ UNCHANGED dlReaders
    /\ UNCHANGED << coreVars, watchVars, relayVars, upgradeVars, urVars >>

\* f.Update(updates), and the call returns.
DlUpdateFolder(t) ==
    /\ dlCalls[t].pc = "fupdate"
    /\ dlFiles' = [dlFiles EXCEPT ![dlCalls[t].f] = FolderUpdate(@, dlCalls[t].updates)]
    /\ dlCalls' = [dlCalls EXCEPT ![t].pc = "idle", ![t].ret = << "done" >>]
    /\ UNCHANGED << dlFolders, dlReaders >>
    /\ UNCHANGED << coreVars, watchVars, relayVars, upgradeVars, urVars >>

\* deviceDownloadState.Has is entered: RLock, f, ok := t.folders[folder],
\* RUnlock; return false if the folder is not there.
DlHasCall(t, folder, file, version, index) ==
    /\ dlCalls[t].pc = "idle"
    /\ dlCalls' = [dlCalls EXCEPT ![t] =
                     IF folder \in DOMAIN dlFolders
                     THEN [DlIdle EXCEPT !.op = "has", !.folder = folder, !.ok = TRUE,
                                         !.updates = << file, version, index >>,
                                         !.f = dlFolders[folder], !.pc = "fhas"]
                     ELSE [DlIdle EXCEPT !.op = "has", !.folder = folder,
                                         !.updates = << file, version, index >>,
                                         !.ret = << "false" >>]]
    /\ UNCHANGED << dlFolders, dlFiles, dlReaders >>
    /\ UNCHANGED << coreVars, watchVars, relayVars, upgradeVars, urVars >>

\* return f.Has(file, version, index)
DlHasFolder(t) ==
    /\ dlCalls[t].pc = "fhas"
    /\ dlCalls' = [dlCalls EXCEPT ![t].pc = "idle",
                     ![t].ret = << IF FolderHas(dlFiles[dlCalls[t].f], dlCalls[t].updates[1],
                                                dlCalls[t].updates[2], dlCalls[t].updates[3])
                                   THEN "true" ELSE "false" >>]
    /\ UNCHANGED << dlFolders, dlFiles, dlReaders >>
    /\ UNCHANGED << coreVars, watchVars, relayVars, upgradeVars, urVars >>

\* deviceDownloadState.GetBlockCounts is entered: t.mut.RLock()
DlGetBlockCountsCall(t, folder) ==
    /\ dlCalls[t].pc = "idle"
    /\ dlReaders < MaxReaders
    /\ dlReaders' = dlReaders + 1
    /\ dlCalls' = [dlCalls EXCEPT ![t] =
                     [DlIdle EXCEPT !.op = "counts", !.folder = folder, !.pc = "counts"]]
    /\ UNCHANGED << dlFolders, dlFiles >>
    /\ UNCHANGED << coreVars, watchVars, relayVars, upgradeVars, urVars >>

\* The loop over t.folders: when the folder is there the call returns its
\* counts from inside the loop; otherwise RUnlock and return nil.
DlGetBlockCountsScan(t) ==
    /\ dlCalls[t].pc = "counts"
    /\ IF dlCalls[t].folder \in DOMAIN dlFolders
       THEN /\ dlCalls' = [dlCalls EXCEPT ![t].pc = "idle", ![t].ok = TRUE,
                            ![t].ret = << "counts" >>]
            /\ UNCHANGED dlReaders
       ELSE /\ dlCalls' = [dlCalls EXCEPT ![t].pc = "idle", ![t].ret = << "nil" >>]
            /\ dlReaders' = dlReaders - 1
    /\ UNCHANGED << dlFolders, dlFiles >>
    /\ UNCHANGED << coreVars, watchVars, relayVars, upgradeVars, urVars >>

\* The update batches explored: one or two updates of the file.
DlUpdateKinds ==
    {ForgetUpdate(n, v) : n \in DlFileNames, v \in DlVersions}
    \cup {AppendUpdate(n, v, << i >>) : n \in DlFileNames, v \in DlVersions, i \in DlIndexes}

DlBatches == {<< u >> : u \in DlUpdateKinds} \cup {<< u, v >> : u \in DlUpdateKinds, v \in DlUpdateKinds}

\* One caller using the download state of folder "F".
FolderNext ==
    \/ \E b \in DlBatches : DlUpdateCall("t1", "F", b)
    \/ DlUpdateStore("t1")
    \/ DlUpdateFolder("t1")
    \/ \E n \in DlFileNames, v \in DlVersions, i \in DlIndexes : DlHasCall("t1", "F", n, v, i)
    \/ DlHasFolder("t1")

FolderSpec == Init /\ [][FolderNext]_vars

\* What a folder's state says: for each file its version and index set.
C31_Entries(files) ==
    [n \in DOMAIN files |->
        [version |-> files[n].version,
         indexes |-> {files[n].blockIndexes[k] : k \in DOMAIN files[n].blockIndexes}]]

C31_Indexes(update) == {update.blockIndexes[k] : k \in DOMAIN update.blockIndexes}

C31_Apply(entries, update) ==
    LET n == update.name
        stored == n \in DOMAIN entries
    IN IF update.type = "forget"
       THEN IF stored /\ entries[n].version = update.version
            THEN MapDel(entries, n) ELSE entries
       ELSE IF stored /\ entries[n].version = update.version
            THEN MapPut(entries, n, [version |-> update.version,
                                     indexes |-> entries[n].indexes \cup C31_Indexes(update)])
            ELSE MapPut(entries, n, [version |-> update.version,
                                     indexes |-> C31_Indexes(update)])

RECURSIVE C31_ApplyAll(_, _)
C31_ApplyAll(entries, updates) ==
    IF updates = << >> THEN entries
    ELSE C31_ApplyAll(C31_Apply(entries, Head(updates)), Tail(updates))

C31_UpdateStep ==
    \A t \in DlThreads :
        (dlCalls[t].pc = "fupdate" /\ dlCalls'[t].pc = "idle") =>
            C31_Entries(dlFiles'[dlCalls[t].f]) =
                C31_ApplyAll(C31_Entries(dlFiles[dlCalls[t].f]), dlCalls[t].updates)

C31_HasStep ==
    \A t \in DlThreads :
        (dlCalls[t].pc = "fhas" /\ dlCalls'[t].pc = "idle") =>
            LET entries == C31_Entries(dlFiles[dlCalls[t].f])
                file == dlCalls[t].updates[1]
            IN (dlCalls'[t].ret = << "true" >>) <=>
                   /\ file \in DOMAIN entries
                   /\ entries[file].version = dlCalls[t].updates[2]
                   /\ dlCalls[t].updates[3] \in entries[file].indexes

\* C31: Has(file, v, i) is true exactly when the entry stored for the file
\* has version v and i among its indexes; an Append of another version
\* replaces the version and the indexes, an Append of the same version adds
\* its indexes, a Forget removes the entry when the version matches and
\* changes nothing otherwise.
C31_HasAndUpdate == [][C31_UpdateStep /\ C31_HasStep]_vars

\* Has(f, 2, 1) has returned true on an entry of version 2 that holds
\* index 1 only.
C31_Witness ==
    /\ dlCalls["t1"].op = "has" /\ dlCalls["t1"].pc = "idle"
    /\ dlCalls["t1"].updates = << "f", 2, 1 >>
    /\ dlCalls["t1"].ret = << "true" >>
    /\ dlFiles[dlFolders["F"]]["f"] = [blockIndexes |-> << 1 >>, version |-> 2]

\* Two goroutines using one deviceDownloadState, each call appending one
\* index to version 1 of the file.
DlSingles == {<< AppendUpdate(n, 1, << i >>) >> : n \in DlFileNames, i \in DlIndexes}

DeviceNext ==
    \E t \in DlThreads :
        \/ \E folder \in DlFolderNames, b \in DlSingles : DlUpdateCall(t, folder, b)
        \/ DlUpdateStore(t)
        \/ DlUpdateFolder(t)
        \/ \E folder \in DlFolderNames : DlGetBlockCountsCall(t, folder)
        \/ DlGetBlockCountsScan(t)

DeviceSpec == Init /\ [][DeviceNext]_vars

\* C37: deviceDownloadState.GetBlockCounts releases the read lock on every
\* return path: the read locks held are those of the calls still inside
\* GetBlockCounts, so that a later Update of an unregistered folder can
\* take the write lock.
C37_ReadLockReleased ==
    dlReaders = Cardinality({t \in DlThreads : dlCalls[t].pc = "counts"})

\* C38: when two Update calls for the same folder both found it
\* unregistered and both have returned, the updates of both are retained
\* (here: two appends of the same version of the same file).
C38_BothRetained ==
    \A t \in DlThreads, u \in DlThreads :
        ( /\ t # u
          /\ dlCalls[t].op = "update" /\ dlCalls[t].pc = "idle" /\ ~dlCalls[t].ok
          /\ dlCalls[u].op = "update" /\ dlCalls[u].pc = "idle" /\ ~dlCalls[u].ok
          /\ dlCalls[t].folder = dlCalls[u].folder
          /\ dlCalls[t].updates[1].type = "append" /\ dlCalls[u].updates[1].type = "append"
          /\ dlCalls[t].updates[1].version = dlCalls[u].updates[1].version )
        => FolderHas(dlFiles[dlFolders[dlCalls[t].folder]], dlCalls[t].updates[1].name,
                     dlCalls[t].updates[1].version, dlCalls[t].updates[1].blockIndexes[1])

\* The capacity of the channel between the backend and watchLoop.
backendBuffer == 2

\* The name Watch was called with, the paths the backend reports events
\* for, and those of them the ignore matcher matches.
WatchName == "."
WatchPaths == {"x", "ign"}
ShouldIgnore(relPath) == relPath = "ign"

\* The event watchLoop reports after an overflow, and the one it reports
\* for a backend event (eventType: Remove for the removal events).
OverflowEvent == [path |-> WatchName, rm |-> FALSE]
OutEvent(ev) == [path |-> ev.path, rm |-> ev.rm]

\* The backend posts an event.  It does not block: with the channel full
\* the event is dropped.  A stopped watch posts nothing.
BackendPost(ev) ==
    /\ wpc # "returned"
    /\ Len(backendChan) < backendBuffer
    /\ backendChan' = Append(backendChan, ev)
    /\ UNCHANGED << wpc, wev, wctxDone, outLast, wsent, wdropped >>
    /\ UNCHANGED << coreVars, dlVars, relayVars, upgradeVars, urVars >>

\* The context of the watch is cancelled.
WatchCancel ==
    /\ ~wctxDone
    /\ wctxDone' = TRUE
    /\ UNCHANGED << backendChan, wpc, wev, outLast, wsent, wdropped >>
    /\ UNCHANGED << coreVars, dlVars, relayVars, upgradeVars, urVars >>

\* The top of the loop: if len(backendChan) == backendBuffer
WatchTop ==
    /\ wpc = "top"
    /\ wpc' = IF Len(backendChan) = backendBuffer THEN "drain" ELSE "select"
    /\ wsent' = 0
    /\ wdropped' = 0
    /\ UNCHANGED << backendChan, wev, wctxDone, outLast >>
    /\ UNCHANGED << coreVars, dlVars, relayVars, upgradeVars, urVars >>

\* watchLoop that takes one event off the full buffer and reports.
WatchDrain_one ==
    /\ wpc = "drain"
    /\ IF backendChan # << >> /\ wdropped = 0
       THEN /\ backendChan' = Tail(backendChan)
            /\ wdropped' = Min(wdropped + 1, backendBuffer)
            /\ UNCHANGED wpc
       ELSE /\ wpc' = "overflow"
            /\ UNCHANGED << backendChan, wdropped >>
    /\ UNCHANGED << wev, wctxDone, outLast, wsent >>
    /\ UNCHANGED << coreVars, dlVars, relayVars, upgradeVars, urVars >>

\* One turn of the loop "outer": an event is received and discarded, or
\* the channel is empty and the loop is left.
WatchDrain ==
    /\ wpc = "drain"
    /\ IF backendChan # << >>
       THEN /\ backendChan' = Tail(backendChan)
            /\ wdropped' = Min(wdropped + 1, backendBuffer)
            /\ UNCHANGED wpc
       ELSE /\ wpc' = "overflow"
            /\ UNCHANGED << backendChan, wdropped >>
    /\ UNCHANGED << wev, wctxDone, outLast, wsent >>
    /\ UNCHANGED << coreVars, dlVars, relayVars, upgradeVars, urVars >>

\* outChan <- Event{Name: name, Type: NonRemove}: outChan has no buffer,
\* the send is done when the consumer receives.
WatchOverflowSend ==
    /\ wpc = "overflow"
    /\ outLast' = OverflowEvent
    /\ wsent' = wsent + 1
    /\ wpc' = "select"
    /\ UNCHANGED << backendChan, wev, wctxDone, wdropped >>
    /\ UNCHANGED << coreVars, dlVars, relayVars, upgradeVars, urVars >>

\* select, case ev := <-backendChan: an ignored path continues the loop,
\* any other goes on to the inner select.
WatchSelectEvent ==
    /\ wpc = "select"
    /\ backendChan # << >>
    /\ backendChan' = Tail(backendChan)
    /\ IF ShouldIgnore(Head(backendChan).path)
       THEN wpc' = "top" /\ UNCHANGED wev
       ELSE wpc' = "send" /\ wev' = Head(backendChan)
    /\ UNCHANGED << wctxDone, outLast, wsent, wdropped >>
    /\ UNCHANGED << coreVars, dlVars, relayVars, upgradeVars, urVars >>

\* select, case <-ctx.Done(), of the outer and of the inner select:
\* notify.Stop(backendChan) and return.
WatchStop ==
    /\ wpc \in {"select", "send"}
    /\ wctxDone
    /\ wpc' = "returned"
    /\ UNCHANGED << backendChan, wev, wctxDone, outLast, wsent, wdropped >>
    /\ UNCHANGED << coreVars, dlVars, relayVars, upgradeVars, urVars >>

\* inner select, case outChan <- Event{Name: relPath, Type: evType}: done
\* when the consumer receives.
WatchSend ==
    /\ wpc = "send"
    /\ outLast' = OutEvent(wev)
    /\ wsent' = wsent + 1
    /\ wpc' = "top"
    /\ wev' = NoEv
    /\ UNCHANGED << backendChan, wctxDone, wdropped >>
    /\ UNCHANGED << coreVars, dlVars, relayVars, upgradeVars, urVars >>

\* The steps watchLoop takes without the consumer of outChan.
WatchLoopStep == WatchTop \/ WatchDrain \/ WatchSelectEvent \/ WatchStop

WatchNext ==
    \/ \E p \in WatchPaths, rm \in BOOLEAN : BackendPost([path |-> p, rm |-> rm])
    \/ WatchCancel
    \/ WatchTop
    \/ WatchDrain
    \/ WatchOverflowSend
    \/ WatchSelectEvent
    \/ WatchStop
    \/ WatchSend

WatchSpec == Init /\ [][WatchNext]_vars

\* watchLoop runs whenever it has a step it can take by itself, and a
\* select whose ctx.Done case is ready again and again takes it in the end
\* (select chooses among its ready cases at random); nothing makes the
\* consumer receive from outChan.
WatchLiveSpec == WatchSpec /\ WF_vars(WatchLoopStep) /\ SF_vars(WatchStop)

C32_DetectStep ==
    (wpc = "top" /\ wpc' # "top") =>
        IF Len(backendChan) = backendBuffer THEN wpc' = "drain" ELSE wpc' = "select"

C32_ReportStep ==
    (wpc = "overflow" /\ wpc' # "overflow") =>
        /\ wdropped >= backendBuffer
        /\ wsent = 0 /\ wsent' = 1
        /\ outLast' = OverflowEvent
        /\ wpc' = "select"

C32_DrainStep ==
    (wpc = "drain" /\ wpc' = "overflow") => backendChan = << >>

\* C32: when the buffer is full at the top of an iteration, watchLoop
\* discards every buffered backend event, reporting none of them, and
\* then emits exactly one NonRemove event for the watched root name.
C32_OverflowReported == [][C32_DetectStep /\ C32_DrainStep /\ C32_ReportStep]_vars

\* The buffered events were discarded and the overflow event, the only
\* event of the iteration so far, was received.
C32_Witness ==
    /\ wpc = "select"
    /\ wdropped >= backendBuffer
    /\ wsent = 1
    /\ outLast = OverflowEvent

\* C39: once the context is cancelled watchLoop stops the backend watch
\* and returns, even if nothing receives from outChan.
C39_StopsAfterCancel == wctxDone ~> (wpc = "returned")

\* The most addresses given to relayAddressesOrder.
MaxRelays == 2

\* The relay addresses, the latencies (in milliseconds) a lookup can
\* measure, and the answer of a lookup that fails.
RelayAddrs == {"r1", "r2"}
RelayLatencies == {10, 40, 60}
LookupFailed == 0 - 1

\* time.Hour in milliseconds, and the width of a bucket.
Hour == 3600000
BucketWidth == 50

\* latency, err := osutil.GetLatencyForURL(irelay); if err != nil { latency = time.Hour }
LatencyOf(addr) == IF relayLatency[addr] = LookupFailed THEN Hour ELSE relayLatency[addr]

\* id := int(result.latency/time.Millisecond) / 50
BucketId(addr) == LatencyOf(addr) \div BucketWidth

\* The orders rand.Shuffle can leave a bucket in.
Shuffles(bucket) ==
    {[i \in 1 .. Len(bucket) |-> bucket[p[i]]] :
        p \in {q \in [1 .. Len(bucket) -> 1 .. Len(bucket)] :
                  \A i, j \in 1 .. Len(bucket) : i # j => q[i] # q[j]}}

\* buckets[id]: the addresses of the input with that id.
BucketOf(input, id) == SelectSeq(input, LAMBDA a : BucketId(a) = id)

\* The addresses appended for the ids in ascending order.
RECURSIVE AppendBuckets(_, _)
AppendBuckets(input, ids) ==
    IF ids = {} THEN {<< >>}
    ELSE LET id == CHOOSE x \in ids : \A y \in ids : x <= y
         IN {s \o rest : s \in Shuffles(BucketOf(input, id)),
                         rest \in AppendBuckets(input, ids \ {id})}

\* addresses := make([]string, len(input)): len(input) empty strings, to
\* which the buckets are appended.
RelayAddressesOrderResults(input) ==
    {[i \in 1 .. Len(input) |-> ""] \o tail :
        tail \in AppendBuckets(input, {BucketId(input[i]) : i \in 1 .. Len(input)})}

\* relayAddressesOrder(input)
RelayAddressesOrder ==
    /\ relayOutput = << "none" >>
    /\ relayOutput' \in RelayAddressesOrderResults(relayInput)
    /\ UNCHANGED << relayInput, relayLatency >>
    /\ UNCHANGED << coreVars, dlVars, watchVars, upgradeVars, urVars >>

\* Any input of up to MaxRelays addresses, any outcome of the lookups.
RelayInit ==
    /\ order = "alphabetic" /\ observed = FALSE /\ InitFolder
    /\ relayInput \in UNION {[1 .. n -> RelayAddrs] : n \in 0 .. MaxRelays}
    /\ relayLatency \in [RelayAddrs -> RelayLatencies \cup {LookupFailed}]
    /\ relayOutput = << "none" >>

RelayNext == RelayAddressesOrder

RelaySpec == RelayInit /\ [][RelayNext]_vars

\* How often an address occurs in a list.
C33_Count(list, a) == Cardinality({i \in 1 .. Len(list) : list[i] = a})

\* C33: relayAddressesOrder returns exactly the addresses given: as many
\* entries as the input has, each given address as often as given, no
\* empty or extra entry, in non-decreasing order of latency bucket (failed
\* lookups in the bucket of one hour).
C33_ExactlyTheAddresses ==
    relayOutput # << "none" >> =>
        /\ Len(relayOutput) = Len(relayInput)
        /\ \A i \in 1 .. Len(relayOutput) : relayOutput[i] \in RelayAddrs
        /\ \A a \in RelayAddrs : C33_Count(relayOutput, a) = C33_Count(relayInput, a)
        /\ \A i, j \in 1 .. Len(relayOutput) :
              i < j => BucketId(relayOutput[i]) <= BucketId(relayOutput[j])

\* The most calls of upgradeToURL explored.
MaxUpgrades == 2

\* The archives explored: the release whose binary the archive holds, if
\* it holds one, and for the signature and the compatibility file whether
\* it is missing, there but not valid, or valid.
Releases == {"v2", "v3"}
Archives ==
    [binary : BOOLEAN, release : Releases,
     sig : {"none", "bad", "good"}, comp : {"none", "bad", "good"}]

\* The paths: binary, binary + ".old", and the temporary file that the
\* n-th call's os.CreateTemp makes in the directory of the binary.
BinaryPath == << "binary", 0 >>
OldPath == << "old", 0 >>
TempPath(n) == << "tmp", n >>

\* What is at a path.
FileAt(fs, path) == IF path \in DOMAIN fs THEN fs[path] ELSE NoName

\* os.Rename(from, to): the file at "to", if any, is replaced.
Rename(fs, from, to) == MapDel(MapPut(fs, to, fs[from]), from)

\* readRelease: the binary of the archive is written to a temporary file
\* in the directory of the binary (writeBinary); verifyUpgrade fails
\* without a temporary file, without a signature, without a compatibility
\* file, and, removing the temporary file, on a signature that does not
\* verify; then the compatibility file is parsed.
ReadReleaseFiles(fs, a, fname) ==
    IF ~a.binary THEN fs
    ELSE IF a.sig = "none" \/ a.comp = "none" THEN MapPut(fs, fname, a.release)
    ELSE IF a.sig = "bad" THEN fs
    ELSE MapPut(fs, fname, a.release)

ReadReleaseOk(a) == a.binary /\ a.sig = "good" /\ a.comp = "good"

\* upgradeToURL is called: readRelease, and the return on its error.
UpgradeCall(a) ==
    /\ upc \in {"idle", "returned"}
    /\ ucall.n < MaxUpgrades
    /\ ucall' = [n |-> ucall.n + 1, prev |-> FileAt(fsys, BinaryPath), new |-> a.release]
    /\ fsys' = ReadReleaseFiles(fsys, a, TempPath(ucall.n + 1))
    /\ ufailed' = {}
    /\ IF ReadReleaseOk(a)
       THEN upc' = "removeOld" /\ uret' = "none"
       ELSE upc' = "returned" /\ uret' = "err"
    /\ UNCHANGED << coreVars, dlVars, watchVars, relayVars, urVars >>

\* os.Remove(old)
UpgradeRemoveOld ==
    /\ upc = "removeOld"
    /\ fsys' = MapDel(fsys, OldPath)
    /\ upc' = "renameBinary"
    /\ UNCHANGED << ufailed, uret, ucall >>
    /\ UNCHANGED << coreVars, dlVars, watchVars, relayVars, urVars >>

\* err = os.Rename(binary, old); if err != nil { return "", err }
UpgradeRenameBinary(ok) ==
    /\ upc = "renameBinary"
    /\ ok => BinaryPath \in DOMAIN fsys
    /\ IF ok
       THEN /\ fsys' = Rename(fsys, BinaryPath, OldPath)
            /\ upc' = "renameNew"
            /\ UNCHANGED << ufailed, uret >>
       ELSE /\ ufailed' = ufailed \cup {"renameBinary"}
            /\ uret' = "err"
            /\ upc' = "deferred"
            /\ UNCHANGED fsys
    /\ UNCHANGED ucall
    /\ UNCHANGED << coreVars, dlVars, watchVars, relayVars, urVars >>

\* if err := os.Rename(fname, binary); err != nil { ... }; return rt, nil
UpgradeRenameNew(ok) ==
    /\ upc = "renameNew"
    /\ IF ok
       THEN /\ fsys' = Rename(fsys, TempPath(ucall.n), BinaryPath)
            /\ uret' = "ok"
            /\ upc' = "deferred"
            /\ UNCHANGED ufailed
       ELSE /\ ufailed' = ufailed \cup {"renameNew"}
            /\ upc' = "rollback"
            /\ UNCHANGED << fsys, uret >>
    /\ UNCHANGED ucall
    /\ UNCHANGED << coreVars, dlVars, watchVars, relayVars, urVars >>

\* os.Rename(old, binary), its error not looked at; return "", err
UpgradeRollback(ok) ==
    /\ upc = "rollback"
    /\ IF ok
       THEN fsys' = Rename(fsys, OldPath, BinaryPath) /\ UNCHANGED ufailed
       ELSE ufailed' = ufailed \cup {"rollback"} /\ UNCHANGED fsys
    /\ uret' = "err"
    /\ upc' = "deferred"
    /\ UNCHANGED ucall
    /\ UNCHANGED << coreVars, dlVars, watchVars, relayVars, urVars >>

\* defer os.Remove(fname)
UpgradeDeferred ==
    /\ upc = "deferred"
    /\ fsys' = MapDel(fsys, TempPath(ucall.n))
    /\ upc' = "returned"
    /\ UNCHANGED << ufailed, uret, ucall >>
    /\ UNCHANGED << coreVars, dlVars, watchVars, relayVars, urVars >>

UpgradeNext ==
    \/ \E a \in Archives : UpgradeCall(a)
    \/ UpgradeRemoveOld
    \/ \E ok \in BOOLEAN : UpgradeRenameBinary(ok)
    \/ \E ok \in BOOLEAN : UpgradeRenameNew(ok)
    \/ \E ok \in BOOLEAN : UpgradeRollback(ok)
    \/ UpgradeDeferred

UpgradeSpec == Init /\ [][UpgradeNext]_vars

\* C34: when upgradeToURL has returned, either it succeeded, the new
\* binary is at the binary path and the previous one at binary + ".old",
\* or it failed and the previous binary is at the binary path (also when
\* the first rename or the move of the new binary failed); and the
\* temporary file of the call is gone in either case.
C34_InstallOrKeep ==
    (upc = "returned" /\ ucall.n > 0) =>
        /\ TempPath(ucall.n) \notin DOMAIN fsys
        /\ IF uret = "ok"
           THEN /\ FileAt(fsys, BinaryPath) = ucall.new
                /\ FileAt(fsys, OldPath) = ucall.prev
           ELSE FileAt(fsys, BinaryPath) = ucall.prev

\* The most usage reports counted after Stop.
MaxReports == 2

\* The values of the option URAccepted.
URAcceptedValues == {1, 2, 3}

\* The process runs until a goroutine panics.
UrRunning == urCommit # "panicked"

\* Serve is started: s.stop = make(chan struct{}) and the timer is set to
\* the initial delay.
UrServeStart ==
    /\ UrRunning
    /\ urServe = "new"
    /\ urServe' = "loop"
    /\ urStopClosed' = FALSE
    /\ urTimer' = "initial"
    /\ UNCHANGED << urForceRunClosed, urCommit, urStop, urReports >>
    /\ UNCHANGED << coreVars, dlVars, watchVars, relayVars, upgradeVars >>

\* select, case <-s.stop: return
UrServeStopped ==
    /\ UrRunning
    /\ urServe = "loop"
    /\ urStopClosed
    /\ urServe' = "returned"
    /\ UNCHANGED << urStopClosed, urForceRunClosed, urTimer, urCommit, urStop, urReports >>
    /\ UNCHANGED << coreVars, dlVars, watchVars, relayVars, upgradeVars >>

\* select, case <-s.forceRun: t.Reset(0).  The receive is ready when
\* CommitConfiguration is sending and when the channel is closed.
UrServeForceRun ==
    /\ UrRunning
    /\ urServe = "loop"
    /\ urForceRunClosed \/ urCommit = "sending"
    /\ urTimer' = "now"
    /\ urCommit' = IF urCommit = "sending" THEN "done" ELSE urCommit
    /\ UNCHANGED << urStopClosed, urForceRunClosed, urServe, urStop, urReports >>
    /\ UNCHANGED << coreVars, dlVars, watchVars, relayVars, upgradeVars >>

\* select, case <-t.C: the report is sent if URAccepted >= 2, and the
\* timer is set to tomorrow.
UrServeTimer(urAccepted) ==
    /\ UrRunning
    /\ urServe = "loop"
    /\ urReports < MaxReports
    /\ urReports' = IF urAccepted >= 2 /\ urStop = "done" THEN urReports + 1 ELSE urReports
    /\ urTimer' = "tomorrow"
    /\ UNCHANGED << urStopClosed, urForceRunClosed, urServe, urCommit, urStop >>
    /\ UNCHANGED << coreVars, dlVars, watchVars, relayVars, upgradeVars >>

\* CommitConfiguration: if one of the three options has changed,
\* s.forceRun <- struct{}{}.  The channel has no buffer: the send waits
\* for Serve's receive; on a closed channel it panics.
UrCommitCall(changed) ==
    /\ UrRunning
    /\ urCommit \in {"idle", "done"}
    /\ urCommit' = IF ~changed THEN "done"
                   ELSE IF urForceRunClosed THEN "panicked" ELSE "sending"
    /\ UNCHANGED << urStopClosed, urForceRunClosed, urServe, urTimer, urStop, urReports >>
    /\ UNCHANGED << coreVars, dlVars, watchVars, relayVars, upgradeVars >>

\* Stop: close(s.stop)
UrStopCall ==
    /\ UrRunning
    /\ urStop = "idle"
    /\ urStopClosed' = TRUE
    /\ urStop' = "closing"
    /\ UNCHANGED << urForceRunClosed, urServe, urTimer, urCommit, urReports >>
    /\ UNCHANGED << coreVars, dlVars, watchVars, relayVars, upgradeVars >>

\* Stop: close(s.forceRun).  A send that waits on the channel panics.
UrStopForceRun ==
    /\ UrRunning
    /\ urStop = "closing"
    /\ urForceRunClosed' = TRUE
    /\ urStop' = "done"
    /\ urCommit' = IF urCommit = "sending" THEN "panicked" ELSE urCommit
    /\ UNCHANGED << urStopClosed, urServe, urTimer, urReports >>
    /\ UNCHANGED << coreVars, dlVars, watchVars, relayVars, upgradeVars >>

UsageNext ==
    \/ UrServeStart
    \/ UrServeStopped
    \/ UrServeForceRun
    \/ \E urAccepted \in URAcceptedValues : UrServeTimer(urAccepted)
    \/ \E changed \in BOOLEAN : UrCommitCall(changed)
    \/ UrStopCall
    \/ UrStopForceRun

UsageSpec == Init /\ [][UsageNext]_vars

\* C40: under any interleaving of Serve, Stop and CommitConfiguration, a
\* CommitConfiguration that changes one of the options never sends on a
\* closed channel, and no usage report is sent once Stop has returned.
C40_CommitSafeStopQuiet ==
    /\ urCommit # "panicked"
    /\ urReports = 0

=============================================================================
